---- MODULE Spec2Model ----
(***************************************************************************)
(* Merkle tree with de-duplicated authentication structures                *)
(* (twenty-first/src/util_types/merkle_tree.rs).                           *)
(*                                                                         *)
(* A tree is the node array built by CpuParallel::from_digests; an opening *)
(* is what get_leaves_by_indices and get_authentication_structure return;  *)
(* the verifier is the static verify_authentication_structure, which sees  *)
(* only its five arguments.  usize is a machine word of WordBits bits, and *)
(* the build profile decides what an arithmetic overflow does: the debug   *)
(* profile panics (overflow checks, debug assertions), the release profile *)
(* wraps and compiles the debug assertions out.                            *)
(*                                                                         *)
(* Three specifications share the variables: Spec is the prover and the    *)
(* verifier of openings, TreeSpec the builder and the accessors of a tree  *)
(* on their own, Tip5Spec the Tip5 sponge                                  *)
(* (twenty-first/src/shared_math/tip5.rs).                                 *)
(***************************************************************************)
EXTENDS Integers, Sequences, FiniteSets, TLC

VARIABLES
    profile,   \* "debug" or "release": the build the program runs as
    pc,        \* "start", "built", "opened", "verified"
    nodes,     \* MerkleTree.nodes, a function on 0 .. 2L-1 (empty before the build)
    proof,     \* the opening the prover produced for the tree
    call,      \* the arguments of the call of verify_authentication_structure
    tamper,    \* how `call` differs from `proof`
    verdict,   \* "none", or what the call did: "true", "false", "panic"
    given,     \* the leaf digests handed to from_digests
    op,        \* the last call of a tree or sponge operation: name, arguments, result
    sponge,    \* Tip5State.state, the 16 words of the sponge (empty before init)
    inner,     \* RustyLevelDbVec: the elements behind `inner`
    borrow,    \* the borrow flag of the RefCell: 0 free, n > 0 readers, -1 one writer
    reader,    \* the activity that reads the vector: its call, position and copy
    writer     \* the activity that writes the vector: its call and position

storage == <<inner, borrow, reader, writer>>

vars == <<profile, pc, nodes, proof, call, tamper, verdict, given, op, sponge, storage>>

----------------------------------------------------------------------------
(* Bounds of the model. *)

\* usize is 2^LogWordBits bits wide (2^6 = 64 on the real target, scaled
\* down; a power of two, so that a masked shift amount is s % WordBits).
LogWordBits == 3

\* Largest height of a tree that is built.  A Vec<Digest> of 2^(h+1) nodes
\* has to fit the address space, so the height of a tree, and that height
\* plus one, stay below WordBits - 1, where the sizes start to overflow.
MaxHeight == 2

\* Longest list of leaf indices the prover is asked to open.
MaxIndices == 3

\* Longest argument list of a call with arbitrary arguments.
MaxAdvLen == 2

\* Largest height of a tree the builder and the accessors are exercised on:
\* from_digests is given every number of leaf digests from 0 to
\* 2^MaxBuildHeight, so that levels of PARALLELLIZATION_THRESHOLD nodes and
\* more exist.
MaxBuildHeight == 5

\* Largest height of a tree whose leaves are opened by lists of indices.
MaxOpenHeight == 3

\* Largest number of absorb and squeeze calls made on one sponge.
MaxSpongeCalls == 2

\* States with a single word set that the linear layers are run on.
MaxUnitWords == 2

\* Largest number of elements of the storage vector.
MaxVecLen == 3

\* Largest number of threads that share the parents of one level.
MaxWorkers == 2

WordBits == 2 ^ LogWordBits

Word == 2 ^ WordBits

----------------------------------------------------------------------------
(* Results of operations that can panic. *)

Ok(v) == [ok |-> TRUE, val |-> v]

Panic == [ok |-> FALSE, val |-> <<>>]

OverflowChecks == profile = "debug"

DebugAssertions == profile = "debug"

\* a + b on usize.
AddW(a, b) ==
    IF a + b >= Word
    THEN IF OverflowChecks THEN Panic ELSE Ok((a + b) % Word)
    ELSE Ok(a + b)

\* a * b on usize.
MulW(a, b) ==
    IF a * b >= Word
    THEN IF OverflowChecks THEN Panic ELSE Ok((a * b) % Word)
    ELSE Ok(a * b)

\* 1 << s on usize: a shift by WordBits or more panics under overflow
\* checks and is masked to the word width otherwise.
Shl1(s) ==
    IF s >= WordBits
    THEN IF OverflowChecks THEN Panic ELSE Ok(2 ^ (s % WordBits))
    ELSE Ok(2 ^ s)

\* n ^ 1.
Xor1(n) == IF n % 2 = 0 THEN n + 1 ELSE n - 1

----------------------------------------------------------------------------
(* Sequences. *)

SeqsUpTo(S, n) == UNION {[1 .. k -> S] : k \in 0 .. n}

Range(s) == {s[k] : k \in DOMAIN s}

SetMin(S) == CHOOSE m \in S : \A x \in S : m <= x

RECURSIVE ReverseSortedSeq(_)
\* A variant that puts the largest element first.
ReverseSortedSeq(S) ==
    IF S = {} THEN <<>>
    ELSE LET m == SetMin(S) IN ReverseSortedSeq(S \ {m}) \o <<m>>

RECURSIVE SortedSeq(_)
\* The elements of a set of numbers in ascending order.
SortedSeq(S) ==
    IF S = {} THEN <<>>
    ELSE LET m == SetMin(S) IN <<m>> \o SortedSeq(S \ {m})

RemoveAt(s, k) == [j \in 1 .. Len(s) - 1 |-> IF j < k THEN s[j] ELSE s[j + 1]]

RECURSIVE Sort(_)
\* Vec::sort: ascending, duplicates kept.
Sort(s) ==
    IF Len(s) = 0 THEN <<>>
    ELSE LET m == SetMin(Range(s))
             k == CHOOSE j \in DOMAIN s : s[j] = m
         IN  <<m>> \o Sort(RemoveAt(s, k))

RECURSIVE Dedup(_)
\* Vec::dedup: of each run of consecutive equal elements the first is kept.
Dedup(s) ==
    IF Len(s) <= 1 THEN s
    ELSE IF s[1] = s[2] THEN Dedup(Tail(s))
         ELSE <<s[1]>> \o Dedup(Tail(s))

----------------------------------------------------------------------------
(* Digests and the hasher H.  The tree is generic in H: AlgebraicHasher;   *)
(* a digest is either given as a leaf, <<k>>, or the hash of two digests.  *)
(* hash_pair is the free pairing, so it has no collisions.                 *)

hash_pair(left, right) == <<left, right>>

----------------------------------------------------------------------------
(* shared_math::other *)

RECURSIVE log_2_floor(_)
log_2_floor(n) == IF n <= 1 THEN 0 ELSE 1 + log_2_floor(n \div 2)

is_power_of_two(n) == n # 0 /\ 2 ^ log_2_floor(n) = n

----------------------------------------------------------------------------
(* CpuParallel::from_digests *)

PARALLELLIZATION_THRESHOLD == 16

RECURSIVE ParallelLevelsOneShort(_, _, _)
\* A variant whose parallel iterator leaves out the last node of a level.
ParallelLevelsOneShort(ns, node_count_on_this_level, count_acc) ==
    IF node_count_on_this_level >= PARALLELLIZATION_THRESHOLD
    THEN LET n == node_count_on_this_level
             local_digests == [i \in 0 .. n - 2 |->
                                  hash_pair(ns[(n + i) * 2], ns[(n + i) * 2 + 1])]
             copied == [j \in DOMAIN ns |->
                           IF n <= j /\ j < n + n - 1 THEN local_digests[j - n] ELSE ns[j]]
         IN  ParallelLevelsOneShort(copied, n \div 2, count_acc + n)
    ELSE [nodes |-> ns, count_acc |-> count_acc]

RECURSIVE ParallelLevels(_, _, _)
\* The while loop: one level per iteration, every parent of the level
\* hashed from the node array as it was when the level began.
ParallelLevels(ns, node_count_on_this_level, count_acc) ==
    IF node_count_on_this_level >= PARALLELLIZATION_THRESHOLD
    THEN LET n == node_count_on_this_level
             local_digests == [i \in 0 .. n - 1 |->
                                  hash_pair(ns[(n + i) * 2], ns[(n + i) * 2 + 1])]
             copied == [j \in DOMAIN ns |->
                           IF n <= j /\ j < n + n THEN local_digests[j - n] ELSE ns[j]]
         IN  ParallelLevels(copied, n \div 2, count_acc + n)
    ELSE [nodes |-> ns, count_acc |-> count_acc]

RECURSIVE SequentialNodes(_, _)
\* The for loop over (1 .. len - count_acc).rev().
SequentialNodes(ns, i) ==
    IF i < 1 THEN ns
    ELSE SequentialNodes([ns EXCEPT ![i] = hash_pair(ns[i * 2], ns[i * 2 + 1])], i - 1)

\* A variant without the assertion on the number of digests.
BuildNodesUnasserted(digests) ==
    LET leaves_count == Len(digests) IN
    IF leaves_count = 0 THEN Panic
    ELSE LET filler == digests[1]
             filled == [i \in 0 .. 2 * leaves_count - 1 |->
                           IF i >= leaves_count THEN digests[i - leaves_count + 1]
                           ELSE filler]
             par == ParallelLevels(filled, leaves_count \div 2, 0)
             last == leaves_count - par.count_acc - 1
         IN  Ok([nodes |-> SequentialNodes(par.nodes, last),
                 hash_pair_calls |-> par.count_acc + (IF last > 0 THEN last ELSE 0)])

\* The body of from_digests: the node array, and the number of calls of
\* hash_pair the two loops made.
BuildNodes(digests) ==
    LET leaves_count == Len(digests) IN
    IF ~is_power_of_two(leaves_count) THEN Panic
    \* let filler = digests[0]: an index out of bounds on an empty slice.
    ELSE IF leaves_count = 0 THEN Panic
    ELSE LET filler == digests[1]
             filled == [i \in 0 .. 2 * leaves_count - 1 |->
                           IF i >= leaves_count THEN digests[i - leaves_count + 1]
                           ELSE filler]
             par == ParallelLevels(filled, leaves_count \div 2, 0)
             last == leaves_count - par.count_acc - 1
         IN  Ok([nodes |-> SequentialNodes(par.nodes, last),
                 hash_pair_calls |-> par.count_acc + (IF last > 0 THEN last ELSE 0)])

from_digests(digests) ==
    LET built == BuildNodes(digests) IN
    IF built.ok THEN Ok(built.val.nodes) ELSE Panic

----------------------------------------------------------------------------
(* MerkleTree: accessors.  `ns` is the node array. *)

NodesLen(ns) == Cardinality(DOMAIN ns)

get_root(ns) == ns[1]

get_leaf_count(ns) ==
    IF is_power_of_two(NodesLen(ns)) THEN Ok(NodesLen(ns) \div 2) ELSE Panic

get_height(ns) ==
    LET leaf_count == get_leaf_count(ns) IN
    IF ~leaf_count.ok \/ ~is_power_of_two(leaf_count.val) THEN Panic
    ELSE Ok(log_2_floor(leaf_count.val))

get_leaf_by_index(ns, index) ==
    LET first_leaf_index == NodesLen(ns) \div 2
        beyond_last_leaf_index == NodesLen(ns)
        at == AddW(first_leaf_index, index)
    IN  IF ~(index < first_leaf_index \/ beyond_last_leaf_index <= index) THEN Panic
        ELSE IF ~at.ok \/ at.val \notin DOMAIN ns THEN Panic
        ELSE Ok(ns[at.val])

get_leaves_by_indices(ns, leaf_indices) ==
    LET each == [k \in DOMAIN leaf_indices |-> get_leaf_by_index(ns, leaf_indices[k])] IN
    IF \E k \in DOMAIN each : ~each[k].ok THEN Panic
    ELSE Ok([k \in DOMAIN each |-> each[k].val])

----------------------------------------------------------------------------
(* MerkleTree::indices_of_nodes_in_authentication_structure *)

RECURSIVE PathThroughRoot(_)
\* A variant whose walk takes the root in as well.
PathThroughRoot(node_index) ==
    IF node_index >= 1 THEN {node_index} \cup PathThroughRoot(node_index \div 2) ELSE {}

RECURSIVE PathToRoot(_)
\* The node indices the while loop visits from node_index: every node of
\* the walk that is above the root index 1.
PathToRoot(node_index) ==
    IF node_index > 1 THEN {node_index} \cup PathToRoot(node_index \div 2) ELSE {}

\* A variant that forgets to take the computable nodes out.
indices_not_deduplicated(num_nodes, leaf_indices) ==
    LET num_leaves == num_nodes \div 2
        node == [k \in DOMAIN leaf_indices |-> AddW(leaf_indices[k], num_leaves)]
    IN  IF \E k \in DOMAIN node : ~node[k].ok \/ ~(node[k].val < num_nodes) THEN Panic
        ELSE LET node_can_be_computed == UNION {PathToRoot(node[k].val) : k \in DOMAIN node}
                 node_is_needed == {Xor1(n) : n \in node_can_be_computed}
             IN  Ok(SortedSeq(node_is_needed))

indices_of_nodes_in_authentication_structure(num_nodes, leaf_indices) ==
    LET num_leaves == num_nodes \div 2
        node == [k \in DOMAIN leaf_indices |-> AddW(leaf_indices[k], num_leaves)]
    IN  \* assert!(all_indices_are_valid): an index that is not valid, or whose
        \* sum overflows under overflow checks, ends in a panic.
        IF \E k \in DOMAIN node : ~node[k].ok \/ ~(node[k].val < num_nodes) THEN Panic
        ELSE LET node_can_be_computed == UNION {PathToRoot(node[k].val) : k \in DOMAIN node}
                 node_is_needed == {Xor1(n) : n \in node_can_be_computed}
             IN  Ok(SortedSeq(node_is_needed \ node_can_be_computed))

get_authentication_structure(ns, leaf_indices) ==
    LET idx == indices_of_nodes_in_authentication_structure(NodesLen(ns), leaf_indices) IN
    IF ~idx.ok THEN Panic
    ELSE IF \E k \in DOMAIN idx.val : idx.val[k] \notin DOMAIN ns THEN Panic
    ELSE Ok([k \in DOMAIN idx.val |-> ns[idx.val[k]]])

----------------------------------------------------------------------------
(* MerkleTree::verify_authentication_structure                             *)
(*                                                                         *)
(* The partial Merkle tree is a function from node indices to digests.     *)
(* The steps hand on a record [outcome, pmt, ...]: outcome "ok" goes on,   *)
(* "false" is an early `return false`, "panic" a panic.                    *)

\* let num_leaves = 1 << tree_height; let num_nodes = num_leaves * 2;
TreeSizes(tree_height) ==
    LET num_leaves == Shl1(tree_height) IN
    IF ~num_leaves.ok THEN Panic
    ELSE LET num_nodes == MulW(num_leaves.val, 2) IN
         IF ~num_nodes.ok THEN Panic
         ELSE Ok([num_leaves |-> num_leaves.val, num_nodes |-> num_nodes.val])

\* indices.into_iter().zip(structure).collect::<HashMap>(): the pairs up to
\* the shorter length; of two pairs with one key the later one stays.
ZipCollect(indices, digests) ==
    LET n == IF Len(indices) < Len(digests) THEN Len(indices) ELSE Len(digests)
        last(i) == CHOOSE k \in 1 .. n : indices[k] = i /\ \A j \in k + 1 .. n : indices[j] # i
    IN  [i \in {indices[k] : k \in 1 .. n} |-> digests[last(i)]]

RECURSIVE InsertLeavesUnchecked(_, _, _, _, _)
\* A variant that keeps the first digest of a repeated index and does not
\* compare the later ones with it.
InsertLeavesUnchecked(pmt, leaf_indices, leaf_digests, num_leaves, k) ==
    IF k > Len(leaf_indices) \/ k > Len(leaf_digests)
    THEN [outcome |-> IF Len(leaf_indices) = Len(leaf_digests) THEN "ok" ELSE "panic",
          pmt |-> pmt]
    ELSE LET node_index == leaf_indices[k] + num_leaves IN
         IF node_index \notin DOMAIN pmt
         THEN InsertLeavesUnchecked((node_index :> leaf_digests[k]) @@ pmt,
                                    leaf_indices, leaf_digests, num_leaves, k + 1)
         ELSE InsertLeavesUnchecked(pmt, leaf_indices, leaf_digests, num_leaves, k + 1)

RECURSIVE InsertLeaves(_, _, _, _, _)
\* The loop over leaf_indices.iter().zip_eq(leaf_digests.iter()), from the
\* k-th pair on.  zip_eq panics when one side ends before the other.
InsertLeaves(pmt, leaf_indices, leaf_digests, num_leaves, k) ==
    IF k > Len(leaf_indices) \/ k > Len(leaf_digests)
    THEN [outcome |-> IF Len(leaf_indices) = Len(leaf_digests) THEN "ok" ELSE "panic",
          pmt |-> pmt]
    ELSE LET node_index == leaf_indices[k] + num_leaves IN
         IF node_index \notin DOMAIN pmt
         THEN InsertLeaves((node_index :> leaf_digests[k]) @@ pmt,
                           leaf_indices, leaf_digests, num_leaves, k + 1)
         ELSE IF pmt[node_index] # leaf_digests[k]
              THEN [outcome |-> "false", pmt |-> pmt]
              ELSE InsertLeaves(pmt, leaf_indices, leaf_digests, num_leaves, k + 1)

\* leaf_indices.map(|i| (i + num_leaves) / 2), sorted, deduplicated.
FirstParents(leaf_indices, num_leaves) ==
    Dedup(Sort([k \in DOMAIN leaf_indices |-> (leaf_indices[k] + num_leaves) \div 2]))

RECURSIVE HashLevel(_, _, _, _)
\* The inner for loop, from the k-th parent of the frontier on.  `hashed`
\* lists the parents hash_pair was evaluated for, `why` names the check
\* that returned false.
HashLevel(pmt, hashed, parent_node_indices, k) ==
    IF k > Len(parent_node_indices)
    THEN [outcome |-> "ok", pmt |-> pmt, hashed |-> hashed, why |-> "none"]
    ELSE LET parent_node_index == parent_node_indices[k]
             left_node_index == parent_node_index * 2
             right_node_index == Xor1(left_node_index)
         IN  IF parent_node_index \in DOMAIN pmt
             THEN [outcome |-> "false", pmt |-> pmt, hashed |-> hashed,
                   why |-> "parent_present"]
             ELSE IF left_node_index \notin DOMAIN pmt
             THEN [outcome |-> "false", pmt |-> pmt, hashed |-> hashed,
                   why |-> "left_missing"]
             ELSE IF right_node_index \notin DOMAIN pmt
             THEN [outcome |-> "false", pmt |-> pmt, hashed |-> hashed,
                   why |-> "right_missing"]
             ELSE HashLevel((parent_node_index :>
                                hash_pair(pmt[left_node_index], pmt[right_node_index])) @@ pmt,
                            Append(hashed, parent_node_index),
                            parent_node_indices, k + 1)

RECURSIVE HashRoundsOneShort(_, _, _, _)
\* A variant that runs one round fewer, for _ in 1..tree_height.
HashRoundsOneShort(pmt, hashed, parent_node_indices, rounds) ==
    IF rounds <= 1
    THEN [outcome |-> "ok", pmt |-> pmt, hashed |-> hashed,
          parent_node_indices |-> parent_node_indices, why |-> "none", frontiers |-> <<>>]
    ELSE LET level == HashLevel(pmt, hashed, parent_node_indices, 1) IN
         IF level.outcome # "ok"
         THEN [outcome |-> level.outcome, pmt |-> level.pmt, hashed |-> level.hashed,
               parent_node_indices |-> parent_node_indices, why |-> level.why,
               frontiers |-> <<parent_node_indices>>]
         ELSE LET rest == HashRoundsOneShort(level.pmt, level.hashed,
                                     Dedup([k \in DOMAIN parent_node_indices |->
                                               parent_node_indices[k] \div 2]),
                                     rounds - 1)
              IN  [rest EXCEPT !.frontiers = <<parent_node_indices>> \o @]

RECURSIVE HashRoundsStoppingAtRoot(_, _, _, _)
\* A variant that moves the frontier up between two rounds only, so that
\* the last round leaves the frontier at the node it hashed.
HashRoundsStoppingAtRoot(pmt, hashed, parent_node_indices, rounds) ==
    IF rounds = 0
    THEN [outcome |-> "ok", pmt |-> pmt, hashed |-> hashed,
          parent_node_indices |-> parent_node_indices, why |-> "none", frontiers |-> <<>>]
    ELSE LET level == HashLevel(pmt, hashed, parent_node_indices, 1) IN
         IF level.outcome # "ok" \/ rounds = 1
         THEN [outcome |-> level.outcome, pmt |-> level.pmt, hashed |-> level.hashed,
               parent_node_indices |-> parent_node_indices, why |-> level.why,
               frontiers |-> <<parent_node_indices>>]
         ELSE LET rest == HashRoundsStoppingAtRoot(level.pmt, level.hashed,
                                     Dedup([k \in DOMAIN parent_node_indices |->
                                               parent_node_indices[k] \div 2]),
                                     rounds - 1)
              IN  [rest EXCEPT !.frontiers = <<parent_node_indices>> \o @]

RECURSIVE HashRounds(_, _, _, _)
\* for _ in 0..tree_height, with `rounds` rounds still to run.  `frontiers`
\* lists parent_node_indices as it was at the start of each round run.
HashRounds(pmt, hashed, parent_node_indices, rounds) ==
    IF rounds = 0
    THEN [outcome |-> "ok", pmt |-> pmt, hashed |-> hashed,
          parent_node_indices |-> parent_node_indices, why |-> "none", frontiers |-> <<>>]
    ELSE LET level == HashLevel(pmt, hashed, parent_node_indices, 1) IN
         IF level.outcome # "ok"
         THEN [outcome |-> level.outcome, pmt |-> level.pmt, hashed |-> level.hashed,
               parent_node_indices |-> parent_node_indices, why |-> level.why,
               frontiers |-> <<parent_node_indices>>]
         ELSE LET rest == HashRounds(level.pmt, level.hashed,
                                     Dedup([k \in DOMAIN parent_node_indices |->
                                               parent_node_indices[k] \div 2]),
                                     rounds - 1)
              IN  [rest EXCEPT !.frontiers = <<parent_node_indices>> \o @]

\* A variant that accepts whatever root was computed.
RootMatchesAnything(pmt, parent_node_indices, root) ==
    IF DebugAssertions
       /\ (Len(parent_node_indices) # 1 \/ parent_node_indices[1] # 0 \/ 1 \notin DOMAIN pmt)
    THEN "panic"
    ELSE IF 1 \notin DOMAIN pmt THEN "panic"
    ELSE "true"

\* The three debug assertions and partial_merkle_tree[&1] == root.
RootMatches(pmt, parent_node_indices, root) ==
    IF DebugAssertions
       /\ (Len(parent_node_indices) # 1 \/ parent_node_indices[1] # 0 \/ 1 \notin DOMAIN pmt)
    THEN "panic"
    ELSE IF 1 \notin DOMAIN pmt THEN "panic"
    ELSE IF pmt[1] = root THEN "true" ELSE "false"

\* What a call hands back when it ends at `stage` before the hashing loop.
Ended(verdict_, stage) ==
    [verdict |-> verdict_, stage |-> stage, hashed |-> <<>>, why |-> "none",
     frontiers |-> <<>>, parent_node_indices |-> <<>>, pmt |-> <<>>]

\* The body of the function after the two sizes are computed.  Besides the
\* verdict the record tells where the call ended (`stage`), the parents
\* hashed (`hashed`), the frontier of each round (`frontiers`), and the
\* frontier and the partial tree as the loop left them.
VerifySteps(sizes, root, tree_height, leaf_indices, leaf_digests, authentication_structure) ==
    IF ~sizes.ok THEN Ended("panic", "sizes")
    ELSE IF Len(leaf_indices) # Len(leaf_digests) THEN Ended("false", "lengths")
    ELSE IF Len(leaf_indices) = 0 THEN Ended("true", "empty")
    ELSE IF \E k \in DOMAIN leaf_indices : leaf_indices[k] >= sizes.val.num_leaves
    THEN Ended("false", "range")
    ELSE LET expected == indices_of_nodes_in_authentication_structure(
                             sizes.val.num_nodes, leaf_indices)
         IN
         IF ~expected.ok THEN Ended("panic", "expected")
         ELSE IF Len(authentication_structure) # Len(expected.val)
         THEN Ended("false", "structure_length")
         ELSE LET seeded == ZipCollect(expected.val, authentication_structure)
                  opened == InsertLeaves(seeded, leaf_indices, leaf_digests,
                                         sizes.val.num_leaves, 1)
              IN
              IF opened.outcome # "ok"
              THEN Ended(opened.outcome, "leaves")
              ELSE LET up == HashRounds(opened.pmt, <<>>,
                                        FirstParents(leaf_indices, sizes.val.num_leaves),
                                        tree_height)
                   IN
                   [verdict |-> IF up.outcome # "ok" THEN up.outcome
                                ELSE RootMatches(up.pmt, up.parent_node_indices, root),
                    stage |-> IF up.outcome # "ok" THEN "loop" ELSE "root",
                    hashed |-> up.hashed,
                    why |-> up.why,
                    frontiers |-> up.frontiers,
                    parent_node_indices |-> up.parent_node_indices,
                    pmt |-> up.pmt]

\* A variant that counts the height in levels of nodes, not in edges.
verify_height_in_levels(root, tree_height, leaf_indices, leaf_digests, authentication_structure) ==
    LET h == IF tree_height > 0 THEN tree_height - 1 ELSE 0 IN
    VerifySteps(TreeSizes(h), root, h, leaf_indices, leaf_digests,
                authentication_structure)

verify_authentication_structure(root, tree_height, leaf_indices, leaf_digests, authentication_structure) ==
    VerifySteps(TreeSizes(tree_height), root, tree_height, leaf_indices, leaf_digests,
                authentication_structure)

----------------------------------------------------------------------------
(* Tip5 (twenty-first/src/shared_math/tip5.rs): the sponge.                *)
(*                                                                         *)
(* A field element is a term: <<"c", n>> is the element n, <<"add", a, b>> *)
(* a sum that is not a known element, <<"perm", i, state>> word i of the   *)
(* permutation of `state`.  The permutation is taken as an unknown         *)
(* injective function of the whole 16-word state, so two states are equal  *)
(* only if they were made by the same words and the same number of         *)
(* permutations.                                                           *)

STATE_SIZE == 16

CAPACITY == 6

RATE == 10

DIGEST_LENGTH == 5

\* BFieldElement::new(n) for a small n.
Elt(n) == <<"c", n>>

BFIELD_ZERO == Elt(0)

BFIELD_ONE == Elt(1)

\* a + b in the field; the elements named in the model are far below the
\* modulus, so their sum is not reduced.
FieldAdd(a, b) ==
    IF a = BFIELD_ZERO THEN b
    ELSE IF b = BFIELD_ZERO THEN a
    ELSE IF a[1] = "c" /\ b[1] = "c" THEN Elt(a[2] + b[2])
    ELSE <<"add", a, b>>

\* Tip5::permutation: NUM_ROUNDS rounds on the whole state.
permutation(state) == [i \in 1 .. STATE_SIZE |-> <<"perm", i - 1, state>>]

\* A variant that fills the words from CAPACITY on, not from RATE on.
Tip5State_new_from_capacity(domain) ==
    [i \in 1 .. STATE_SIZE |->
        IF domain = "FixedLength" /\ i - 1 >= CAPACITY THEN BFIELD_ONE ELSE BFIELD_ZERO]

\* Tip5State::new.  Word i of the source is element i + 1 of the tuple.
Tip5State_new(domain) ==
    [i \in 1 .. STATE_SIZE |->
        IF domain = "FixedLength" /\ i - 1 >= RATE THEN BFIELD_ONE ELSE BFIELD_ZERO]

\* A variant that starts from the variable-length state.
hash_10_variable_length(input) ==
    LET new == Tip5State_new("VariableLength")
        copied == [i \in 1 .. STATE_SIZE |-> IF i <= 10 THEN input[i] ELSE new[i]]
    IN  SubSeq(permutation(copied), 1, DIGEST_LENGTH)

\* Tip5::hash_10.
hash_10(input) ==
    LET new == Tip5State_new("FixedLength")
        copied == [i \in 1 .. STATE_SIZE |-> IF i <= 10 THEN input[i] ELSE new[i]]
    IN  SubSeq(permutation(copied), 1, DIGEST_LENGTH)

\* <Tip5 as AlgebraicHasher>::hash_pair.
Tip5_hash_pair(left, right) ==
    LET input == [i \in 1 .. 2 * DIGEST_LENGTH |->
                     IF i <= DIGEST_LENGTH THEN left[i] ELSE right[i - DIGEST_LENGTH]]
    IN  hash_10(input)

\* <Tip5 as SpongeHasher>::init.
Tip5_init == Tip5State_new("VariableLength")

\* A variant that writes the block over the rate.
absorb_overwriting(state, input) ==
    permutation([i \in 1 .. STATE_SIZE |-> IF i <= RATE THEN input[i] ELSE state[i]])

\* <Tip5 as SpongeHasher>::absorb: the state it leaves.
absorb(state, input) ==
    permutation([i \in 1 .. STATE_SIZE |->
                    IF i <= RATE THEN FieldAdd(state[i], input[i]) ELSE state[i]])

\* A variant that reads the rate after the permutation.
squeeze_after_permutation(state) ==
    [produce |-> SubSeq(permutation(state), 1, RATE), state |-> permutation(state)]

\* <Tip5 as SpongeHasher>::squeeze: what it returns and the state it leaves.
squeeze(state) ==
    [produce |-> SubSeq(state, 1, RATE), state |-> permutation(state)]

\* A variant made from the cube modulo 256, which is not a permutation.
LOOKUP_TABLE_of_cubes == [i \in 1 .. 256 |-> ((i - 1) * (i - 1) * (i - 1)) % 256]

LOOKUP_TABLE ==
    <<
      0, 7, 26, 63, 124, 215, 85, 254, 214, 228, 45, 185, 140, 173, 33, 240, 29, 177, 176, 32, 8,
      110, 87, 202, 204, 99, 150, 106, 230, 14, 235, 128, 213, 239, 212, 138, 23, 130, 208, 6, 44,
      71, 93, 116, 146, 189, 251, 81, 199, 97, 38, 28, 73, 179, 95, 84, 152, 48, 35, 119, 49, 88,
      242, 3, 148, 169, 72, 120, 62, 161, 166, 83, 175, 191, 137, 19, 100, 129, 112, 55, 221, 102,
      218, 61, 151, 237, 68, 164, 17, 147, 46, 234, 203, 216, 22, 141, 65, 57, 123, 12, 244, 54, 219,
      231, 96, 77, 180, 154, 5, 253, 133, 165, 98, 195, 205, 134, 245, 30, 9, 188, 59, 142, 186, 197,
      181, 144, 92, 31, 224, 163, 111, 74, 58, 69, 113, 196, 67, 246, 225, 10, 121, 50, 60, 157, 90,
      122, 2, 250, 101, 75, 178, 159, 24, 36, 201, 11, 243, 132, 198, 190, 114, 233, 39, 52, 21, 209,
      108, 238, 91, 187, 18, 104, 194, 37, 153, 34, 200, 143, 126, 155, 236, 118, 64, 80, 172, 89,
      94, 193, 135, 183, 86, 107, 252, 13, 167, 206, 136, 220, 207, 103, 171, 160, 76, 182, 227, 217,
      158, 56, 174, 4, 66, 109, 139, 162, 184, 211, 249, 47, 125, 232, 117, 43, 16, 42, 127, 20, 241,
      25, 149, 105, 156, 51, 53, 168, 145, 247, 223, 79, 78, 226, 15, 222, 82, 115, 70, 210, 27, 41,
      1, 170, 40, 131, 192, 229, 248, 255
    >>

\* A variant without the offset of one.
fermat_cube_map(x) ==
    LET xxx == x * x * x IN
    xxx % 257

\* Tip5::offset_fermat_cube_map.
offset_fermat_cube_map(x) ==
    LET xx == x + 1
        xxx == xx * xx * xx
    IN  (xxx + 256) % 257

----------------------------------------------------------------------------
(***************************************************************************)
(* Machine words.  A u64, an i64 (two's complement) or a u128 is the       *)
(* sequence of its bytes, least significant first, as to_le_bytes gives    *)
(* them; the arithmetic below is the wrapping arithmetic of the machine on *)
(* len bytes.  Shorter operands are zero-extended.                         *)
(***************************************************************************)
Dig(a, i) == IF i <= Len(a) THEN a[i] ELSE 0

RECURSIVE Carry(_, _, _, _)
Carry(cols, i, c, acc) ==
    IF i > Len(cols) THEN acc
    ELSE LET t == cols[i] + c
             digits == Append(acc, t % 256)
         IN  IF Len(digits) = i THEN Carry(cols, i + 1, t \div 256, digits) ELSE <<>>

wrapping_add(a, b, len) == Carry([i \in 1 .. len |-> Dig(a, i) + Dig(b, i)], 1, 0, <<>>)

wrapping_sub(a, b, len) == Carry([i \in 1 .. len |-> Dig(a, i) - Dig(b, i)], 1, 0, <<>>)

RECURSIVE Column(_, _, _, _)
Column(a, b, k, i) ==
    IF i > k THEN 0 ELSE Dig(a, i) * Dig(b, k + 1 - i) + Column(a, b, k, i + 1)

wrapping_mul(a, b, len) == Carry([k \in 1 .. len |-> Column(a, b, k, 1)], 1, 0, <<>>)

wrapping_neg(a, len) == wrapping_sub(<<>>, a, len)

RECURSIVE LessFrom(_, _, _)
LessFrom(a, b, i) ==
    IF i = 0 THEN FALSE
    ELSE IF Dig(a, i) # Dig(b, i) THEN Dig(a, i) < Dig(b, i)
    ELSE LessFrom(a, b, i - 1)

Less(a, b) == LessFrom(a, b, IF Len(a) > Len(b) THEN Len(a) ELSE Len(b))

\* x << (8 * bytes) and x >> (8 * bytes) on len bytes
ShlBytes(a, bytes, len) == [i \in 1 .. len |-> IF i <= bytes THEN 0 ELSE Dig(a, i - bytes)]
ShrBytes(a, bytes, len) == [i \in 1 .. len |-> Dig(a, i + bytes)]

\* `x as u64`, `x as u128` of a shorter unsigned x
ZeroExtend(a, len) == SubSeq([i \in 1 .. len |-> Dig(a, i)], 1, len)

\* a small non-negative integer as a word of len bytes
Small(n, len) ==
    [i \in 1 .. len |-> IF i <= 3 THEN (n \div (256 ^ (i - 1))) % 256
                        ELSE IF i = 4 THEN n \div (256 ^ 3) ELSE 0]

\* an i64 constant of the source
I64(n) == IF n >= 0 THEN Small(n, 8) ELSE wrapping_neg(Small(0 - n, 8), 8)

\* `x as u128` of an i64 x: sign extension
I64AsU128(a) == [i \in 1 .. 16 |-> IF i <= 8 THEN a[i] ELSE IF a[8] >= 128 THEN 255 ELSE 0]

IsU64(a) == Len(a) = 8

\* a decimal literal of the source, written in groups of three digits
RECURSIVE DecFrom(_, _, _)
DecFrom(groups, i, acc) ==
    IF i > Len(groups) \/ ~IsU64(acc) THEN acc
    ELSE DecFrom(groups, i + 1,
                 wrapping_add(wrapping_mul(acc, Small(1000, 8), 8), Small(groups[i], 8), 8))

Dec(groups) == DecFrom(groups, 1, Small(0, 8))

(***************************************************************************)
(* BFieldElement: the field of p = 2^64 - 2^32 + 1 elements.  An element   *)
(* is held as the u64  value * 2^64 mod p  (Montgomery representation),    *)
(* always below p.                                                         *)
(***************************************************************************)
P == Dec(<<18, 446, 744, 069, 414, 584, 321>>)

R2 == Dec(<<18, 446, 744, 065, 119, 617, 025>>)

RECURSIVE Canonical(_)
Canonical(t) == IF Less(t, P) THEN SubSeq(t, 1, 8) ELSE Canonical(wrapping_sub(t, P, Len(t)))

IsU128(a) == Len(a) = 16

\* x << bits on len bytes, for bits < 8
Shl(a, bits, len) == wrapping_mul(a, Small(2 ^ bits, len), len)

\* x * 2^-64 mod p for a u128 x; 2^-64 = -2^32 and 2^64 = 2^32 - 1 modulo p
montyred(x) ==
    CASE IsU128(x) ->
        LET xl_lo == SubSeq(x, 1, 4)
            xl_hi == SubSeq(x, 5, 8)
            xh    == SubSeq(x, 9, 16)
            plus  == wrapping_add(wrapping_add(xh, xl_hi, 10), wrapping_add(P, P, 10), 10)
            minus == ShlBytes(wrapping_add(xl_lo, xl_hi, 10), 4, 10)
        IN  Canonical(wrapping_sub(plus, minus, 10))

raw_u128(raw) == ZeroExtend(raw, 16)

from_raw_u64(raw) == raw

BFieldElement_new(value) == montyred(wrapping_mul(value, R2, 16))

BFieldElement_value(raw) == montyred(raw_u128(raw))

BFieldElement_add(a, b) == CASE IsU64(a) /\ IsU64(b) -> Canonical(wrapping_add(a, b, 9))

BFieldElement_sub(a, b) == CASE IsU64(a) /\ IsU64(b) -> Canonical(wrapping_sub(wrapping_add(a, P, 9), b, 9))

BFieldElement_mul(a, b) == CASE IsU64(a) /\ IsU64(b) -> montyred(wrapping_mul(a, b, 16))

BFieldElement_one == BFieldElement_new(Small(1, 8))

i64_add(a, b) == CASE IsU64(a) /\ IsU64(b) -> wrapping_add(a, b, 8)

i64_sub(a, b) == CASE IsU64(a) /\ IsU64(b) -> wrapping_sub(a, b, 8)

i64_mul(a, b) == CASE IsU64(a) /\ IsU64(b) -> wrapping_mul(a, b, 8)

i64_neg(a) == CASE IsU64(a) -> wrapping_neg(a, 8)

(***************************************************************************)
(* The linear layer.  mds_noswap is the one round calls; mds_split is the  *)
(* variant on the 32-bit halves of the raw words.                          *)
(***************************************************************************)
POWERS_OF_OMEGA_BITREVERSED ==
    << BFieldElement_new(Dec(<<1>>)),
       BFieldElement_new(Dec(<<281, 474, 976, 710, 656>>)),
       BFieldElement_new(Dec(<<18, 446, 744, 069, 397, 807, 105>>)),
       BFieldElement_new(Dec(<<18, 446, 742, 969, 902, 956, 801>>)),
       BFieldElement_new(Dec(<<17, 293, 822, 564, 807, 737, 345>>)),
       BFieldElement_new(Dec(<<4, 096>>)),
       BFieldElement_new(Dec(<<4, 503, 599, 626, 321, 920>>)),
       BFieldElement_new(Dec(<<18, 446, 744, 000, 695, 107, 585>>)) >>

\* one outer loop iteration of ntt_noswap: butterflies (j, j + half), block
\* i of 2 * half words using zeta = zetas[i]; the first
\* iteration multiplies by BFieldElement::one()
ntt_iteration(x, half, zetas, one) ==
    SubSeq([n \in 1 .. STATE_SIZE |->
              LET j    == IF (n - 1) % (2 * half) < half THEN n - 1 ELSE n - 1 - half
                  i    == (n - 1) \div (2 * half)
                  zeta == IF half = 8 THEN one ELSE zetas[i + 1]
                  u    == x[j + 1]
                  v    == BFieldElement_mul(x[j + half + 1], zeta)
              IN  IF n - 1 = j THEN BFieldElement_add(u, v) ELSE BFieldElement_sub(u, v)],
           1, STATE_SIZE)

ntt_noswap(x) ==
    LET zetas == POWERS_OF_OMEGA_BITREVERSED
        one   == BFieldElement_one
        x1    == ntt_iteration(x, 8, zetas, one)
        x2    == ntt_iteration(x1, 4, zetas, one)
        x3    == ntt_iteration(x2, 2, zetas, one)
    IN  ntt_iteration(x3, 1, zetas, one)

POWERS_OF_OMEGA_INVERSE ==
    << BFieldElement_new(Dec(<<1>>)),
       BFieldElement_new(Dec(<<68, 719, 476, 736>>)),
       BFieldElement_new(Dec(<<1, 099, 511, 627, 520>>)),
       BFieldElement_new(Dec(<<18, 446, 744, 069, 414, 580, 225>>)),
       BFieldElement_new(Dec(<<18, 446, 462, 594, 437, 873, 665>>)),
       BFieldElement_new(Dec(<<18, 442, 240, 469, 788, 262, 401>>)),
       BFieldElement_new(Dec(<<16, 777, 216>>)),
       BFieldElement_new(Dec(<<1, 152, 921, 504, 606, 846, 976>>)) >>

\* one outer loop iteration of intt_noswap: butterflies (k, k + stride) with
\* zeta = zetas[(8 / stride) * j], j the offset of k in its
\* block; the first iteration does not multiply
intt_iteration(x, stride, zetas) ==
    SubSeq([n \in 1 .. STATE_SIZE |->
              LET k    == IF (n - 1) % (2 * stride) < stride THEN n - 1 ELSE n - 1 - stride
                  j    == k % stride
                  zeta == zetas[(8 \div stride) * j + 1]
                  u    == IF stride = 1 THEN x[k + stride + 1]
                          ELSE BFieldElement_mul(x[k + stride + 1], zeta)
                  v    == x[k + 1]
              IN  IF n - 1 = k THEN BFieldElement_add(v, u) ELSE BFieldElement_sub(v, u)],
           1, STATE_SIZE)

intt_noswap(x) ==
    LET zetas == POWERS_OF_OMEGA_INVERSE
        x1    == intt_iteration(x, 1, zetas)
        x2    == intt_iteration(x1, 2, zetas)
        x3    == intt_iteration(x2, 4, zetas)
    IN  intt_iteration(x3, 8, zetas)

SHIFTS == <<4, 1, 4, 3, 3, 7, 0, 5, 1, 5, 0, 2, 6, 2, 4, 1>>

mds_noswap(state) ==
    LET x       == ntt_noswap(state)
        array   == [i \in 1 .. STATE_SIZE |-> Shl(raw_u128(x[i]), SHIFTS[i], 16)]
        reduced == [i \in 1 .. STATE_SIZE |-> montyred(array[i])]
        shifted == SubSeq([i \in 1 .. STATE_SIZE |-> from_raw_u64(reduced[i])], 1, STATE_SIZE)
    IN  intt_noswap(shifted)

MDS_FREQ_BLOCK_ONE == <<I64(8), I64(4), I64(8), I64(4)>>

MDS_FREQ_BLOCK_TWO == << <<I64(-1), I64(2)>>, <<I64(-1), I64(2)>>, <<I64(-1), I64(2)>>, <<I64(1), I64(1)>> >>

MDS_FREQ_BLOCK_THREE == <<I64(-4), I64(-2), I64(4), I64(1)>>

fft2_real(x) == <<i64_add(x[1], x[2]), i64_sub(x[1], x[2])>>

fft4_real(x) ==
    LET z02 == fft2_real(<<x[1], x[3]>>)
        z13 == fft2_real(<<x[2], x[4]>>)
        y0  == i64_add(z02[1], z13[1])
        y1  == <<z02[2], i64_neg(z13[2])>>
        y2  == i64_sub(z02[1], z13[1])
    IN  <<y0, y1, y2>>

ifft4_real(y) ==
    LET z0  == i64_add(y[1], y[3])
        z1  == i64_sub(y[1], y[3])
        z2  == y[2][1]
        z3  == i64_neg(y[2][2])
        x02 == fft2_real(<<z0, z2>>)
        x13 == fft2_real(<<z1, z3>>)
    IN  <<x02[1], x13[1], x02[2], x13[2]>>

Sum4(a, b, c, d) == i64_add(i64_add(i64_add(a, b), c), d)

block1(x, y) ==
    LET m(i, j) == i64_mul(x[i + 1], y[j + 1])
    IN  << Sum4(m(0, 0), m(1, 3), m(2, 2), m(3, 1)),
           Sum4(m(0, 1), m(1, 0), m(2, 3), m(3, 2)),
           Sum4(m(0, 2), m(1, 1), m(2, 0), m(3, 3)),
           Sum4(m(0, 3), m(1, 2), m(2, 1), m(3, 0)) >>

\* the real and the imaginary part of x[i] * y[j] and of -i * x[i] * y[j], by
\* Karatsuba from m = (xr * yr, xi * yi) and (xr + xi) * (yr + yi)
block2_m(x, y, i, j) == <<i64_mul(x[i + 1][1], y[j + 1][1]), i64_mul(x[i + 1][2], y[j + 1][2])>>

block2_s(x, y, i, j) ==
    i64_mul(i64_add(x[i + 1][1], x[i + 1][2]), i64_add(y[j + 1][1], y[j + 1][2]))

\* (m.0 - m.1,  xs * ys - m.0 - m.1)
block2_times(x, y, i, j) ==
    LET m == block2_m(x, y, i, j)
    IN  <<i64_sub(m[1], m[2]), i64_sub(i64_sub(block2_s(x, y, i, j), m[1]), m[2])>>

\* (xs * ys - m.0 - m.1,  -m.0 + m.1)
block2_times_minus_i(x, y, i, j) ==
    LET m == block2_m(x, y, i, j)
    IN  <<i64_sub(i64_sub(block2_s(x, y, i, j), m[1]), m[2]), i64_add(i64_neg(m[1]), m[2])>>

block2(x, y) ==
    LET t(i, j)  == block2_times(x, y, i, j)
        ti(i, j) == block2_times_minus_i(x, y, i, j)
        sum(a, b, c, d) == <<Sum4(a[1], b[1], c[1], d[1]), Sum4(a[2], b[2], c[2], d[2])>>
    IN  << sum(t(0, 0), ti(1, 3), ti(2, 2), ti(3, 1)),
           sum(t(0, 1), t(1, 0), ti(2, 3), ti(3, 2)),
           sum(t(0, 2), t(1, 1), t(2, 0), ti(3, 3)),
           sum(t(0, 3), t(1, 2), t(2, 1), t(3, 0)) >>

block3(x, y) ==
    LET m(i, j) == i64_mul(x[i + 1], y[j + 1])
    IN  << i64_sub(i64_sub(i64_sub(m(0, 0), m(1, 3)), m(2, 2)), m(3, 1)),
           i64_sub(i64_sub(i64_add(m(0, 1), m(1, 0)), m(2, 3)), m(3, 2)),
           i64_sub(i64_add(i64_add(m(0, 2), m(1, 1)), m(2, 0)), m(3, 3)),
           Sum4(m(0, 3), m(1, 2), m(2, 1), m(3, 0)) >>

\* the four fft4_real of mds_multiply_freq: u[k] is the transform of the
\* words k - 1, k + 3, k + 7, k + 11
mds_multiply_freq_ffts(state) ==
    SubSeq([k \in 1 .. 4 |-> fft4_real(<<state[k], state[k + 4], state[k + 8], state[k + 12]>>)],
           1, 4)

mds_multiply_freq_blocks(u) ==
    << block1(<<u[1][1], u[2][1], u[3][1], u[4][1]>>, MDS_FREQ_BLOCK_ONE),
       block2(<<u[1][2], u[2][2], u[3][2], u[4][2]>>, MDS_FREQ_BLOCK_TWO),
       block3(<<u[1][3], u[2][3], u[3][3], u[4][3]>>, MDS_FREQ_BLOCK_THREE) >>

\* the four ifft4_real: word 4 * i + k - 1 of the result is output i of the
\* inverse transform of (v[1][k], v[2][k], v[3][k])
mds_multiply_freq_iffts(v) ==
    LET r == SubSeq([k \in 1 .. 4 |-> ifft4_real(<<v[1][k], v[2][k], v[3][k]>>)], 1, 4)
    IN  SubSeq([n \in 1 .. STATE_SIZE |-> r[((n - 1) % 4) + 1][((n - 1) \div 4) + 1]],
               1, STATE_SIZE)

\* Each stage is evaluated once, on the value of the stage before it.
mds_multiply_freq(state) ==
    CHOOSE result \in
        { mds_multiply_freq_iffts(v) :
            v \in { mds_multiply_freq_blocks(u) : u \in {mds_multiply_freq_ffts(state)} } } : TRUE

mds_split_words(lo, hi) ==
    LET result(r) ==
            LET s    == wrapping_add(I64AsU128(lo[r]), ShlBytes(I64AsU128(hi[r]), 4, 16), 16)
                s_hi == ShrBytes(s, 8, 8)
                s_lo == SubSeq(s, 1, 8)
                z    == wrapping_sub(ShlBytes(s_hi, 4, 8), s_hi, 8)
                sum  == wrapping_add(s_lo, z, 9)
                res  == SubSeq(sum, 1, 8)
                over == sum[9]
            IN  from_raw_u64(wrapping_add(res, wrapping_sub(Small(0, 4), Small(over, 4), 4), 8))
    IN  SubSeq([r \in 1 .. STATE_SIZE |-> result(r)], 1, STATE_SIZE)

mds_split(state) ==
    LET hi == SubSeq([i \in 1 .. STATE_SIZE |-> ShrBytes(state[i], 4, 8)], 1, STATE_SIZE)
        lo == SubSeq([i \in 1 .. STATE_SIZE |-> ZeroExtend(SubSeq(state[i], 1, 4), 8)],
                     1, STATE_SIZE)
    IN  CHOOSE result \in
            { mds_split_words(mds_multiply_freq(halves[1]), mds_multiply_freq(halves[2])) :
                halves \in {<<lo, hi>>} } : TRUE

----------------------------------------------------------------------------
(* Tip5: the permutation on machine words. *)

NUM_SPLIT_AND_LOOKUP == 4

NUM_ROUNDS == 5

ROUND_CONSTANTS ==
    << BFieldElement_new(Dec(<<13, 630, 775, 303, 355, 457, 758>>)),
       BFieldElement_new(Dec(<<16, 896, 927, 574, 093, 233, 874>>)),
       BFieldElement_new(Dec(<<10, 379, 449, 653, 650, 130, 495>>)),
       BFieldElement_new(Dec(<<1, 965, 408, 364, 413, 093, 495>>)),
       BFieldElement_new(Dec(<<15, 232, 538, 947, 090, 185, 111>>)),
       BFieldElement_new(Dec(<<15, 892, 634, 398, 091, 747, 074>>)),
       BFieldElement_new(Dec(<<3, 989, 134, 140, 024, 871, 768>>)),
       BFieldElement_new(Dec(<<2, 851, 411, 912, 127, 730, 865>>)),
       BFieldElement_new(Dec(<<8, 709, 136, 439, 293, 758, 776>>)),
       BFieldElement_new(Dec(<<3, 694, 858, 669, 662, 939, 734>>)),
       BFieldElement_new(Dec(<<12, 692, 440, 244, 315, 327, 141>>)),
       BFieldElement_new(Dec(<<10, 722, 316, 166, 358, 076, 749>>)),
       BFieldElement_new(Dec(<<12, 745, 429, 320, 441, 639, 448>>)),
       BFieldElement_new(Dec(<<17, 932, 424, 223, 723, 990, 421>>)),
       BFieldElement_new(Dec(<<7, 558, 102, 534, 867, 937, 463>>)),
       BFieldElement_new(Dec(<<15, 551, 047, 435, 855, 531, 404>>)),
       BFieldElement_new(Dec(<<17, 532, 528, 648, 579, 384, 106>>)),
       BFieldElement_new(Dec(<<5, 216, 785, 850, 422, 679, 555>>)),
       BFieldElement_new(Dec(<<15, 418, 071, 332, 095, 031, 847>>)),
       BFieldElement_new(Dec(<<11, 921, 929, 762, 955, 146, 258>>)),
       BFieldElement_new(Dec(<<9, 738, 718, 993, 677, 019, 874>>)),
       BFieldElement_new(Dec(<<3, 464, 580, 399, 432, 997, 147>>)),
       BFieldElement_new(Dec(<<13, 408, 434, 769, 117, 164, 050>>)),
       BFieldElement_new(Dec(<<264, 428, 218, 649, 616, 431>>)),
       BFieldElement_new(Dec(<<4, 436, 247, 869, 008, 081, 381>>)),
       BFieldElement_new(Dec(<<4, 063, 129, 435, 850, 804, 221>>)),
       BFieldElement_new(Dec(<<2, 865, 073, 155, 741, 120, 117>>)),
       BFieldElement_new(Dec(<<5, 749, 834, 437, 609, 765, 994>>)),
       BFieldElement_new(Dec(<<6, 804, 196, 764, 189, 408, 435>>)),
       BFieldElement_new(Dec(<<17, 060, 469, 201, 292, 988, 508>>)),
       BFieldElement_new(Dec(<<9, 475, 383, 556, 737, 206, 708>>)),
       BFieldElement_new(Dec(<<12, 876, 344, 085, 611, 465, 020>>)),
       BFieldElement_new(Dec(<<13, 835, 756, 199, 368, 269, 249>>)),
       BFieldElement_new(Dec(<<1, 648, 753, 455, 944, 344, 172>>)),
       BFieldElement_new(Dec(<<9, 836, 124, 473, 569, 258, 483>>)),
       BFieldElement_new(Dec(<<12, 867, 641, 597, 107, 932, 229>>)),
       BFieldElement_new(Dec(<<11, 254, 152, 636, 692, 960, 595>>)),
       BFieldElement_new(Dec(<<16, 550, 832, 737, 139, 861, 108>>)),
       BFieldElement_new(Dec(<<11, 861, 573, 970, 480, 733, 262>>)),
       BFieldElement_new(Dec(<<1, 256, 660, 473, 588, 673, 495>>)),
       BFieldElement_new(Dec(<<13, 879, 506, 000, 676, 455, 136>>)),
       BFieldElement_new(Dec(<<10, 564, 103, 842, 682, 358, 721>>)),
       BFieldElement_new(Dec(<<16, 142, 842, 524, 796, 397, 521>>)),
       BFieldElement_new(Dec(<<3, 287, 098, 591, 948, 630, 584>>)),
       BFieldElement_new(Dec(<<685, 911, 471, 061, 284, 805>>)),
       BFieldElement_new(Dec(<<5, 285, 298, 776, 918, 878, 023>>)),
       BFieldElement_new(Dec(<<18, 310, 953, 571, 768, 047, 354>>)),
       BFieldElement_new(Dec(<<3, 142, 266, 350, 630, 002, 035>>)),
       BFieldElement_new(Dec(<<549, 990, 724, 933, 663, 297>>)),
       BFieldElement_new(Dec(<<4, 901, 984, 846, 118, 077, 401>>)),
       BFieldElement_new(Dec(<<11, 458, 643, 033, 696, 775, 769>>)),
       BFieldElement_new(Dec(<<8, 706, 785, 264, 119, 212, 710>>)),
       BFieldElement_new(Dec(<<12, 521, 758, 138, 015, 724, 072>>)),
       BFieldElement_new(Dec(<<11, 877, 914, 062, 416, 978, 196>>)),
       BFieldElement_new(Dec(<<11, 333, 318, 251, 134, 523, 752>>)),
       BFieldElement_new(Dec(<<3, 933, 899, 631, 278, 608, 623>>)),
       BFieldElement_new(Dec(<<16, 635, 128, 972, 021, 157, 924>>)),
       BFieldElement_new(Dec(<<10, 291, 337, 173, 108, 950, 450>>)),
       BFieldElement_new(Dec(<<4, 142, 107, 155, 024, 199, 350>>)),
       BFieldElement_new(Dec(<<16, 973, 934, 533, 787, 743, 537>>)),
       BFieldElement_new(Dec(<<11, 068, 111, 539, 125, 175, 221>>)),
       BFieldElement_new(Dec(<<17, 546, 769, 694, 830, 203, 606>>)),
       BFieldElement_new(Dec(<<5, 315, 217, 744, 825, 068, 993>>)),
       BFieldElement_new(Dec(<<4, 609, 594, 252, 909, 613, 081>>)),
       BFieldElement_new(Dec(<<3, 350, 107, 164, 315, 270, 407>>)),
       BFieldElement_new(Dec(<<17, 715, 942, 834, 299, 349, 177>>)),
       BFieldElement_new(Dec(<<9, 600, 609, 149, 219, 873, 996>>)),
       BFieldElement_new(Dec(<<12, 894, 357, 635, 820, 003, 949>>)),
       BFieldElement_new(Dec(<<4, 597, 649, 658, 040, 514, 631>>)),
       BFieldElement_new(Dec(<<7, 735, 563, 950, 920, 491, 847>>)),
       BFieldElement_new(Dec(<<1, 663, 379, 455, 870, 887, 181>>)),
       BFieldElement_new(Dec(<<13, 889, 298, 103, 638, 829, 706>>)),
       BFieldElement_new(Dec(<<7, 375, 530, 351, 220, 884, 434>>)),
       BFieldElement_new(Dec(<<3, 502, 022, 433, 285, 269, 151>>)),
       BFieldElement_new(Dec(<<9, 231, 805, 330, 431, 056, 952>>)),
       BFieldElement_new(Dec(<<9, 252, 272, 755, 288, 523, 725>>)),
       BFieldElement_new(Dec(<<10, 014, 268, 662, 326, 746, 219>>)),
       BFieldElement_new(Dec(<<15, 565, 031, 632, 950, 843, 234>>)),
       BFieldElement_new(Dec(<<1, 209, 725, 273, 521, 819, 323>>)),
       BFieldElement_new(Dec(<<6, 024, 642, 864, 597, 845, 108>>)) >>

\* raw_bytes, LOOKUP_TABLE on each of the eight bytes, from_raw_bytes.
split_and_lookup(element) ==
    CASE IsU64(element) -> SubSeq([i \in 1 .. 8 |-> LOOKUP_TABLE[element[i] + 1]], 1, 8)

\* sq = st * st; qu = sq * sq; st *= sq * qu
seventh_power(st) ==
    CHOOSE result \in
        { BFieldElement_mul(st, BFieldElement_mul(pw[1], pw[2])) :
            pw \in { <<sq, BFieldElement_mul(sq, sq)>> : sq \in {BFieldElement_mul(st, st)} } } : TRUE

\* A variant that raises every word to the seventh power.
sbox_layer_of_powers(state) ==
    SubSeq([i \in 1 .. STATE_SIZE |-> seventh_power(state[i])], 1, STATE_SIZE)

sbox_layer(state) ==
    SubSeq([i \in 1 .. STATE_SIZE |->
               IF i <= NUM_SPLIT_AND_LOOKUP THEN split_and_lookup(state[i])
               ELSE seventh_power(state[i])], 1, STATE_SIZE)

\* state[i] += ROUND_CONSTANTS[round_index * STATE_SIZE + i]
add_round_constants(state, round_index) ==
    LET constants == ROUND_CONSTANTS IN
    SubSeq([i \in 1 .. STATE_SIZE |->
               BFieldElement_add(state[i], constants[round_index * STATE_SIZE + i])],
           1, STATE_SIZE)

\* A variant of round that runs the linear layer before the S-boxes.
round_steps_linear_first == <<"mds_noswap", "sbox_layer", "add_round_constants">>

\* The statements of round, in their order.
round_steps == <<"sbox_layer", "mds_noswap", "add_round_constants">>

----------------------------------------------------------------------------
(***************************************************************************)
(* RustyLevelDbVec.  The elements live behind `inner`, an Rc<RefCell<..>>:  *)
(* every method borrows it for the length of one statement.  A call is the *)
(* sequence of its steps; the steps of a reading and of a writing activity *)
(* on the same vector interleave.                                          *)
(***************************************************************************)
Step(name, index, value) == [step |-> name, index |-> index, value |-> value]

\* self.inner.borrow().get_many(indices)
get_many(indices) ==
    <<Step("borrow", 0, 0)>>
        \o [k \in 1 .. Len(indices) |-> Step("get", indices[k], 0)]
        \o <<Step("drop", 0, 0)>>

\* self.inner.borrow().get_all(), on a vector of len elements
get_all(len) == get_many([k \in 1 .. len |-> k - 1])

\* One element at a time, as a loop of set does: borrow, write, release.
set_many_one_by_one(key_vals) ==
    [n \in 1 .. 3 * Len(key_vals) |->
        LET kv == key_vals[((n - 1) \div 3) + 1]
        IN  IF n % 3 = 1 THEN Step("borrow_mut", 0, 0)
            ELSE IF n % 3 = 2 THEN Step("set", kv[1], kv[2])
            ELSE Step("drop", 0, 0)]

\* self.inner.borrow_mut().set_many(key_vals)
set_many(key_vals) ==
    <<Step("borrow_mut", 0, 0)>>
        \o [k \in 1 .. Len(key_vals) |-> Step("set", key_vals[k][1], key_vals[k][2])]
        \o <<Step("drop", 0, 0)>>

\* self.set_many((0..).zip(vals))
set_first_n(vals) == set_many([k \in 1 .. Len(vals) |-> <<k - 1, vals[k]>>])

\* assert!(iter.len() as Index == self.len()); self.set_first_n(iter)
set_all(vals) == <<Step("assert_len", 0, Len(vals))>> \o set_first_n(vals)

Idle == [call |-> "none", status |-> "idle", program |-> <<>>, at |-> 1, holds |-> FALSE,
         copy |-> <<>>, key_vals |-> <<>>, overlapped |-> FALSE]

Spawned(name, program, key_vals) ==
    [call |-> name, status |-> "running", program |-> program, at |-> 1, holds |-> FALSE,
     copy |-> <<>>, key_vals |-> key_vals, overlapped |-> FALSE]

\* What one step does to the flag, the elements and the activity: the record
\* [panics, borrow, inner, holds, copy] of its outcome.
StepOutcome(activity, step) ==
    LET stay == [panics |-> FALSE, borrow |-> borrow, inner |-> inner,
                 holds |-> activity.holds, copy |-> activity.copy]
        panic == [stay EXCEPT !.panics = TRUE, !.holds = FALSE,
                       !.borrow = IF ~activity.holds THEN borrow
                                  ELSE IF borrow < 0 THEN 0 ELSE borrow - 1]
    IN  CASE step.step = "borrow" ->
               IF borrow < 0 THEN panic
               ELSE [stay EXCEPT !.borrow = borrow + 1, !.holds = TRUE]
          [] step.step = "borrow_mut" ->
               IF borrow # 0 THEN panic
               ELSE [stay EXCEPT !.borrow = -1, !.holds = TRUE]
          [] step.step = "drop" ->
               [stay EXCEPT !.borrow = IF borrow < 0 THEN 0 ELSE borrow - 1, !.holds = FALSE]
          [] step.step = "get" ->
               IF step.index >= Len(inner) THEN panic
               ELSE [stay EXCEPT !.copy = Append(activity.copy, inner[step.index + 1])]
          [] step.step = "set" ->
               IF step.index >= Len(inner) THEN panic
               ELSE [stay EXCEPT !.inner = [inner EXCEPT ![step.index + 1] = step.value]]
          [] step.step = "assert_len" ->
               IF borrow < 0 \/ step.value # Len(inner) THEN panic ELSE stay

\* The activity after its next step with the given outcome.
Advance(activity, outcome, other) ==
    [activity EXCEPT
        !.status = IF outcome.panics THEN "panicked"
                   ELSE IF activity.at = Len(activity.program) THEN "returned" ELSE "running",
        !.at = activity.at + 1,
        !.holds = outcome.holds,
        !.copy = outcome.copy,
        !.overlapped = activity.overlapped \/ other.status = "running"]

----------------------------------------------------------------------------
(* Inputs. *)

\* Leaf arrays: all leaves different, all leaves equal, two leaves alternating.
LeafPatterns == {"distinct", "constant", "alternating"}

Leaves(leaves_count, pattern) ==
    [j \in 1 .. leaves_count |->
        IF pattern = "distinct" THEN <<j - 1>>
        ELSE IF pattern = "constant" THEN <<0>>
        ELSE <<(j - 1) % 2>>]

\* Every leaf once, in order, as in the test that reveals every leaf.
AllLeaves(leaves_count) == [k \in 1 .. leaves_count |-> k - 1]

\* The index lists the prover is asked for: every list of up to MaxIndices
\* valid indices, every leaf once, and every leaf twice.
OpenIndexLists(leaves_count) ==
    SeqsUpTo(0 .. leaves_count - 1, MaxIndices)
        \cup {AllLeaves(leaves_count), AllLeaves(leaves_count) \o AllLeaves(leaves_count)}

\* Digests put in the place of another: two leaf digests and one hash.
TamperDigests == {<<0>>, <<1>>, hash_pair(<<0>>, <<0>>)}

\* Arguments of a call that no prover made.
AdvRoots == {<<0>>, <<1>>, hash_pair(<<0>>, <<0>>)}

\* Digests of a made-up opening: a leaf digest and a hash of two of it.
ForgedDigests == {<<0>>, hash_pair(<<0>>, <<0>>)}

AdvHeights == 0 .. WordBits + 1

AdvIndices == {0, 1, Word \div 2, Word - 1}

AdvLeafDigests == {<<0>>, <<1>>}

AdvStructureDigests == {<<0>>}

NoCall ==
    [root |-> <<0>>, tree_height |-> 0, leaf_indices |-> <<>>, leaf_digests |-> <<>>,
     authentication_structure |-> <<>>]

NoOp == [name |-> "none"]

----------------------------------------------------------------------------
(* The state machine. *)

Init ==
    /\ profile \in {"debug", "release"}
    /\ pc = "start"
    /\ nodes = <<>>
    /\ proof = NoCall
    /\ call = NoCall
    /\ tamper = "none"
    /\ verdict = "none"
    /\ given = <<>>
    /\ op = NoOp
    /\ sponge = <<>>
    /\ inner = <<>>
    /\ borrow = 0
    /\ reader = Idle
    /\ writer = Idle

\* CpuParallel::from_digests on a power-of-two number of leaf digests.
FromDigests ==
    /\ pc = "start"
    /\ \E h \in 0 .. MaxHeight, pattern \in LeafPatterns :
          LET tree == from_digests(Leaves(2 ^ h, pattern)) IN
          /\ tree.ok
          /\ nodes' = tree.val
          /\ given' = Leaves(2 ^ h, pattern)
    /\ pc' = "built"
    /\ UNCHANGED <<profile, proof, call, tamper, verdict, op, sponge, storage>>

\* The prover opens the leaves at leaf_indices: get_root, get_height,
\* get_leaves_by_indices and get_authentication_structure.
Open ==
    /\ pc = "built"
    /\ \E leaf_indices \in OpenIndexLists(NodesLen(nodes) \div 2) :
          LET height == get_height(nodes)
              leaf_digests == get_leaves_by_indices(nodes, leaf_indices)
              structure == get_authentication_structure(nodes, leaf_indices)
          IN  /\ height.ok /\ leaf_digests.ok /\ structure.ok
              /\ proof' = [root |-> get_root(nodes),
                           tree_height |-> height.val,
                           leaf_indices |-> leaf_indices,
                           leaf_digests |-> leaf_digests.val,
                           authentication_structure |-> structure.val]
    /\ pc' = "opened"
    /\ UNCHANGED <<profile, nodes, call, tamper, verdict, given, op, sponge, storage>>

\* One call of verify_authentication_structure with the arguments c.
Verify(c, how) ==
    /\ call' = c
    /\ tamper' = how
    /\ LET run == verify_authentication_structure(
                      c.root, c.tree_height, c.leaf_indices, c.leaf_digests,
                      c.authentication_structure)
       IN  /\ verdict' = run.verdict
           /\ op' = [name |-> "verify", run |-> run]
    /\ pc' = "verified"
    /\ UNCHANGED <<profile, nodes, proof, given, sponge, storage>>

\* The opening as the prover made it.
VerifyOpening ==
    /\ pc = "opened"
    /\ Verify(proof, "none")

\* Another root.
VerifyBadRoot ==
    /\ pc = "opened"
    /\ \E d \in TamperDigests \ {proof.root} :
          Verify([proof EXCEPT !.root = d], "root")

\* One opened leaf digest replaced by another digest.
VerifyBadLeaf ==
    /\ pc = "opened"
    /\ \E k \in DOMAIN proof.leaf_digests :
          \E d \in TamperDigests \ {proof.leaf_digests[k]} :
             Verify([proof EXCEPT !.leaf_digests[k] = d], "leaf")

\* One digest of the authentication structure replaced by another digest.
VerifyBadStructure ==
    /\ pc = "opened"
    /\ \E k \in DOMAIN proof.authentication_structure :
          \E d \in TamperDigests \ {proof.authentication_structure[k]} :
             Verify([proof EXCEPT !.authentication_structure[k] = d], "structure")

\* The height one too large.
VerifyHeightPlusOne ==
    /\ pc = "opened"
    /\ Verify([proof EXCEPT !.tree_height = @ + 1], "height_plus")

\* The height one too small.
VerifyHeightMinusOne ==
    /\ pc = "opened"
    /\ proof.tree_height >= 1
    /\ Verify([proof EXCEPT !.tree_height = @ - 1], "height_minus")

\* One digest of the authentication structure removed.
VerifyStructureRemoved ==
    /\ pc = "opened"
    /\ \E k \in DOMAIN proof.authentication_structure :
          Verify([proof EXCEPT !.authentication_structure = RemoveAt(@, k)],
                 "structure_removed")

\* One digest appended to the authentication structure.
VerifyStructureAppended ==
    /\ pc = "opened"
    /\ \E d \in AdvLeafDigests :
          Verify([proof EXCEPT !.authentication_structure = Append(@, d)],
                 "structure_appended")

\* One leaf index more than leaf digests.
VerifyIndexAdded ==
    /\ pc = "opened"
    /\ \E i \in 0 .. NodesLen(nodes) \div 2 - 1 :
          Verify([proof EXCEPT !.leaf_indices = Append(@, i)], "index_added")

\* One leaf index fewer than leaf digests.
VerifyIndexRemoved ==
    /\ pc = "opened"
    /\ Len(proof.leaf_indices) >= 1
    /\ Verify([proof EXCEPT !.leaf_indices = Tail(@)], "index_removed")

\* One leaf index replaced by an index beyond the last leaf.
VerifyIndexOutOfRange ==
    /\ pc = "opened"
    /\ \E k \in DOMAIN proof.leaf_indices :
          \E i \in {NodesLen(nodes) \div 2, Word - 1} :
             Verify([proof EXCEPT !.leaf_indices[k] = i], "index_out_of_range")

\* A call with arguments of the caller's choosing.
VerifyArbitrary ==
    /\ pc = "start"
    /\ \E root \in AdvRoots, tree_height \in AdvHeights,
          leaf_indices \in SeqsUpTo(AdvIndices, MaxAdvLen),
          leaf_digests \in SeqsUpTo(AdvLeafDigests, MaxAdvLen),
          authentication_structure \in SeqsUpTo(AdvStructureDigests, MaxAdvLen) :
          Verify([root |-> root, tree_height |-> tree_height,
                  leaf_indices |-> leaf_indices, leaf_digests |-> leaf_digests,
                  authentication_structure |-> authentication_structure],
                 "arbitrary")

\* A call with the root and the height of the tree, and with leaf indices,
\* leaf digests and a structure of the caller's choosing.
VerifyForged ==
    /\ pc = "built"
    /\ \E leaf_indices \in SeqsUpTo(0 .. NodesLen(nodes) \div 2 - 1, MaxAdvLen),
          leaf_digests \in SeqsUpTo(ForgedDigests, MaxAdvLen),
          authentication_structure \in SeqsUpTo(ForgedDigests, MaxAdvLen) :
          /\ Len(leaf_indices) = Len(leaf_digests)
          /\ get_height(nodes).ok
          /\ Verify([root |-> get_root(nodes), tree_height |-> get_height(nodes).val,
                     leaf_indices |-> leaf_indices, leaf_digests |-> leaf_digests,
                     authentication_structure |-> authentication_structure],
                    "forged")

\* The opening with its (index, digest) pairs put in another order or
\* repeated: any list the prover may be asked for that has the same indices.
VerifyReordered ==
    /\ pc = "opened"
    /\ \E leaf_indices \in OpenIndexLists(NodesLen(nodes) \div 2) \ {proof.leaf_indices} :
          /\ Range(leaf_indices) = Range(proof.leaf_indices)
          /\ LET pair(i) == CHOOSE k \in DOMAIN proof.leaf_indices : proof.leaf_indices[k] = i
             IN  Verify([proof EXCEPT
                            !.leaf_indices = leaf_indices,
                            !.leaf_digests = [k \in DOMAIN leaf_indices |->
                                                 proof.leaf_digests[pair(leaf_indices[k])]]],
                        "reordered")

Next ==
    \/ FromDigests
    \/ Open
    \/ VerifyOpening
    \/ VerifyBadRoot
    \/ VerifyBadLeaf
    \/ VerifyBadStructure
    \/ VerifyHeightPlusOne
    \/ VerifyHeightMinusOne
    \/ VerifyStructureRemoved
    \/ VerifyStructureAppended
    \/ VerifyIndexAdded
    \/ VerifyIndexRemoved
    \/ VerifyIndexOutOfRange
    \/ VerifyArbitrary
    \/ VerifyForged
    \/ VerifyReordered

Spec == Init /\ [][Next]_vars

----------------------------------------------------------------------------
(* The tree's own operations: the builder on any number of leaf digests,   *)
(* and one call of an accessor on the tree that was built.                 *)

\* The indices get_leaf_by_index is asked for: every leaf, every index up to
\* the length of the node array, and the largest words.
LeafProbes(leaves_count) == (0 .. 2 * leaves_count) \cup {Word - leaves_count, Word - 1}

\* CpuParallel::from_digests on any number of leaf digests.
Build ==
    /\ pc = "start"
    /\ \E n \in 0 .. 2 ^ MaxBuildHeight, pattern \in LeafPatterns :
          LET built == BuildNodes(Leaves(n, pattern)) IN
          /\ given' = Leaves(n, pattern)
          /\ nodes' = IF built.ok THEN built.val.nodes ELSE <<>>
          /\ op' = [name |-> "from_digests", ok |-> built.ok,
                    hash_pair_calls |-> IF built.ok THEN built.val.hash_pair_calls ELSE 0]
          /\ pc' = IF built.ok THEN "built" ELSE "panicked"
    /\ UNCHANGED <<profile, proof, call, tamper, verdict, sponge, storage>>

\* MerkleTree::get_authentication_structure; node_indices is what its call
\* of indices_of_nodes_in_authentication_structure returns.  The tree is one
\* of different leaves, so that a digest names the node it is stored at.
GetAuthenticationStructure ==
    /\ pc = "built"
    /\ NodesLen(nodes) <= 2 ^ (MaxOpenHeight + 1)
    /\ given = Leaves(Len(given), "distinct")
    /\ \E leaf_indices \in OpenIndexLists(NodesLen(nodes) \div 2) :
          op' = [name |-> "get_authentication_structure",
                 leaf_indices |-> leaf_indices,
                 node_indices |-> indices_of_nodes_in_authentication_structure(
                                      NodesLen(nodes), leaf_indices),
                 result |-> get_authentication_structure(nodes, leaf_indices)]
    /\ pc' = "called"
    /\ UNCHANGED <<profile, nodes, proof, call, tamper, verdict, given, sponge, storage>>

\* MerkleTree::get_leaf_by_index.
GetLeafByIndex ==
    /\ pc = "built"
    /\ \E index \in LeafProbes(NodesLen(nodes) \div 2) :
          op' = [name |-> "get_leaf_by_index", index |-> index,
                 result |-> get_leaf_by_index(nodes, index)]
    /\ pc' = "called"
    /\ UNCHANGED <<profile, nodes, proof, call, tamper, verdict, given, sponge, storage>>

\* MerkleTree::get_leaves_by_indices.
GetLeavesByIndices ==
    /\ pc = "built"
    /\ NodesLen(nodes) <= 2 ^ (MaxOpenHeight + 1)
    /\ \E leaf_indices \in SeqsUpTo(LeafProbes(NodesLen(nodes) \div 2), MaxAdvLen) :
          op' = [name |-> "get_leaves_by_indices", leaf_indices |-> leaf_indices,
                 result |-> get_leaves_by_indices(nodes, leaf_indices)]
    /\ pc' = "called"
    /\ UNCHANGED <<profile, nodes, proof, call, tamper, verdict, given, sponge, storage>>

TreeNext ==
    \/ Build
    \/ GetAuthenticationStructure
    \/ GetLeafByIndex
    \/ GetLeavesByIndices

TreeSpec == Init /\ [][TreeNext]_vars

----------------------------------------------------------------------------
(* from_digests step by step.  The parents of a parallel level are shared  *)
(* out to the workers in contiguous ranges; the tasks of different workers *)
(* run in any order.  `op` holds the locals of the call, and two records   *)
(* of what was done: `hashes`, the calls of hash_pair with the children    *)
(* they read, and `events`, the reads and writes of the tasks of the level *)
(* under way.                                                              *)

\* The range of the parallel iterator that worker w of `workers` works off.
ChunkStart(n, workers, w) == ((w - 1) * n) \div workers

\* A variant of the sequential loop that counts upwards, 1..len - count_acc.
sequential_order_ascending(last) == [k \in 1 .. last |-> k]

\* (1..(digests.len() - count_acc)).rev(), `last` being the first index.
sequential_order(last) == [k \in 1 .. last |-> last - k + 1]

\* The locals on entry to the while loop with n nodes on the level: either
\* another parallel level begins or the sequential loop does.
EnterLevel(o, n, count_acc, leaves_count) ==
    IF n >= PARALLELLIZATION_THRESHOLD
    THEN [o EXCEPT !.stage = "parallel",
                   !.node_count_on_this_level = n,
                   !.count_acc = count_acc,
                   !.next = [w \in 1 .. o.workers |-> ChunkStart(n, o.workers, w)],
                   !.local_digests = <<>>,
                   !.events = {}]
    ELSE [o EXCEPT !.stage = "sequential",
                   !.node_count_on_this_level = n,
                   !.count_acc = count_acc,
                   !.order = sequential_order(IF leaves_count - count_acc - 1 > 0
                                              THEN leaves_count - count_acc - 1 ELSE 0),
                   !.at = 1,
                   !.events = {}]

\* The assertion, the filler and the copy of the digests into the leaves.
BuildBegin ==
    /\ pc = "start"
    /\ \E leaves_count \in {0, 3} \cup {2 ^ h : h \in 0 .. MaxBuildHeight},
          workers \in 1 .. MaxWorkers :
          LET digests == Leaves(leaves_count, "distinct") IN
          /\ given' = digests
          /\ IF ~is_power_of_two(leaves_count)
             THEN /\ pc' = "panicked"
                  /\ nodes' = <<>>
                  /\ op' = [name |-> "from_digests_steps", stage |-> "panicked"]
             ELSE /\ pc' = "building"
                  /\ nodes' = [i \in 0 .. 2 * leaves_count - 1 |->
                                  IF i >= leaves_count THEN digests[i - leaves_count + 1]
                                  ELSE digests[1]]
                  /\ op' = EnterLevel(
                              [name |-> "from_digests_steps", stage |-> "begin",
                               workers |-> workers, node_count_on_this_level |-> 0,
                               count_acc |-> 0, next |-> <<>>, local_digests |-> <<>>,
                               order |-> <<>>, at |-> 1, hashes |-> {}, events |-> {}],
                              leaves_count \div 2, 0, leaves_count)
    /\ UNCHANGED <<profile, proof, call, tamper, verdict, sponge, storage>>

\* One task of the parallel iterator: the closure on the next i of one
\* worker's range, and the slot of local_digests its result is collected in.
ParallelTask ==
    /\ pc = "building" /\ op.stage = "parallel"
    /\ \E w \in 1 .. op.workers :
          LET n == op.node_count_on_this_level
              i == op.next[w]
              j == n + i
              left_child == nodes[j * 2]
              right_child == nodes[j * 2 + 1]
          IN  /\ i < ChunkStart(n, op.workers, w + 1)
              /\ op' = [op EXCEPT
                           !.next[w] = i + 1,
                           !.local_digests = (i :> hash_pair(left_child, right_child)) @@ @,
                           !.hashes = @ \cup {[parent |-> j, left |-> left_child,
                                               right |-> right_child]},
                           !.events = @ \cup
                               {[task |-> i, kind |-> "read", array |-> "nodes", slot |-> j * 2],
                                [task |-> i, kind |-> "read", array |-> "nodes", slot |-> j * 2 + 1],
                                [task |-> i, kind |-> "write", array |-> "local_digests",
                                 slot |-> i]}]
    /\ UNCHANGED <<profile, pc, nodes, proof, call, tamper, verdict, given, sponge, storage>>

\* The end of a parallel level: collect_into_vec has returned, the digests
\* are copied into nodes, and the loop goes to the level above.
CopyLevel ==
    /\ pc = "building" /\ op.stage = "parallel"
    /\ LET n == op.node_count_on_this_level IN
       /\ \A w \in 1 .. op.workers : op.next[w] = ChunkStart(n, op.workers, w + 1)
       /\ nodes' = [j \in DOMAIN nodes |->
                       IF n <= j /\ j < n + n THEN op.local_digests[j - n] ELSE nodes[j]]
       /\ op' = EnterLevel(op, n \div 2, op.count_acc + n, Len(given))
    /\ UNCHANGED <<profile, pc, proof, call, tamper, verdict, given, sponge, storage>>

\* One iteration of the sequential loop.
SequentialStep ==
    /\ pc = "building" /\ op.stage = "sequential"
    /\ op.at <= Len(op.order)
    /\ LET i == op.order[op.at] IN
       /\ nodes' = [nodes EXCEPT ![i] = hash_pair(nodes[i * 2], nodes[i * 2 + 1])]
       /\ op' = [op EXCEPT !.at = @ + 1,
                           !.hashes = @ \cup {[parent |-> i, left |-> nodes[i * 2],
                                               right |-> nodes[i * 2 + 1]]}]
    /\ UNCHANGED <<profile, pc, proof, call, tamper, verdict, given, sponge, storage>>

\* The sequential loop is over and the tree is returned.
BuildEnd ==
    /\ pc = "building" /\ op.stage = "sequential"
    /\ op.at > Len(op.order)
    /\ op' = [op EXCEPT !.stage = "returned"]
    /\ pc' = "built"
    /\ UNCHANGED <<profile, nodes, proof, call, tamper, verdict, given, sponge, storage>>

BuildNext ==
    \/ BuildBegin
    \/ ParallelTask
    \/ CopyLevel
    \/ SequentialStep
    \/ BuildEnd

BuildSpec == Init /\ [][BuildNext]_vars

----------------------------------------------------------------------------
(* Tip5: one call of hash_pair, one look-up of a byte, or a sponge that is *)
(* made and then absorbs and squeezes.                                     *)

\* Digests to hash: all words equal, and all words different.
DigestInputs ==
    {[i \in 1 .. DIGEST_LENGTH |-> Elt(c)] : c \in {0, 1}}
        \cup {[i \in 1 .. DIGEST_LENGTH |-> Elt(i)],
              [i \in 1 .. DIGEST_LENGTH |-> Elt(DIGEST_LENGTH + i)]}

\* Blocks to absorb: all zero, all one, and all words different.
BlockInputs ==
    {[i \in 1 .. RATE |-> Elt(c)] : c \in {0, 1}} \cup {[i \in 1 .. RATE |-> Elt(i)]}

Bytes == 0 .. 255

HashPair ==
    /\ pc = "start"
    /\ \E left \in DigestInputs, right \in DigestInputs :
          op' = [name |-> "hash_pair", left |-> left, right |-> right,
                 result |-> Tip5_hash_pair(left, right)]
    /\ pc' = "called"
    /\ UNCHANGED <<profile, nodes, proof, call, tamper, verdict, given, sponge, storage>>

\* One byte of split_and_lookup, and the map the table is made from.
Lookup ==
    /\ pc = "start"
    /\ \E x \in Bytes :
          op' = [name |-> "lookup", byte |-> x, looked_up |-> LOOKUP_TABLE[x + 1],
                 mapped |-> offset_fermat_cube_map(x)]
    /\ pc' = "called"
    /\ UNCHANGED <<profile, nodes, proof, call, tamper, verdict, given, sponge, storage>>

NewState ==
    /\ pc = "start"
    /\ \E domain \in {"VariableLength", "FixedLength"} :
          /\ sponge' = Tip5State_new(domain)
          /\ op' = [name |-> "new", domain |-> domain, calls |-> 0]
    /\ pc' = "sponge"
    /\ UNCHANGED <<profile, nodes, proof, call, tamper, verdict, given, storage>>

SpongeInit ==
    /\ pc = "start"
    /\ sponge' = Tip5_init
    /\ op' = [name |-> "init", calls |-> 0]
    /\ pc' = "sponge"
    /\ UNCHANGED <<profile, nodes, proof, call, tamper, verdict, given, storage>>

\* `before` is the state the call began with, `calls` the number of calls
\* of absorb and squeeze on this sponge so far.
Absorb ==
    /\ pc = "sponge"
    /\ op.calls < MaxSpongeCalls
    /\ \E input \in BlockInputs :
          /\ sponge' = absorb(sponge, input)
          /\ op' = [name |-> "absorb", input |-> input, before |-> sponge,
                    calls |-> op.calls + 1]
    /\ UNCHANGED <<profile, pc, nodes, proof, call, tamper, verdict, given, storage>>

Squeeze ==
    /\ pc = "sponge"
    /\ op.calls < MaxSpongeCalls
    /\ sponge' = squeeze(sponge).state
    /\ op' = [name |-> "squeeze", result |-> squeeze(sponge).produce, before |-> sponge,
              calls |-> op.calls + 1]
    /\ UNCHANGED <<profile, pc, nodes, proof, call, tamper, verdict, given, storage>>

\* States for the linear layer: the zero state, the states with one word
\* equal to one (as in test_mds_circulancy), and the input of
\* test_mds_test_vector with its expected output.
BFieldElement_zero == BFieldElement_new(Small(0, 8))

ZeroState == SubSeq([i \in 1 .. STATE_SIZE |-> BFieldElement_zero], 1, STATE_SIZE)

UnitState(k) ==
    SubSeq([i \in 1 .. STATE_SIZE |-> IF i = k THEN BFieldElement_one ELSE BFieldElement_zero],
           1, STATE_SIZE)

mds_test_vector_x ==
    << BFieldElement_new(Dec(<<5, 735, 458, 159, 267, 578, 080>>)),
       BFieldElement_new(Dec(<<11, 079, 291, 868, 388, 879, 320>>)),
       BFieldElement_new(Dec(<<7, 126, 936, 809, 174, 926, 852>>)),
       BFieldElement_new(Dec(<<13, 782, 161, 578, 414, 002, 790>>)),
       BFieldElement_new(Dec(<<164, 785, 954, 911, 215, 634>>)),
       BFieldElement_new(Dec(<<3, 118, 898, 034, 727, 063, 217>>)),
       BFieldElement_new(Dec(<<6, 737, 535, 956, 326, 810, 438>>)),
       BFieldElement_new(Dec(<<5, 144, 821, 635, 942, 763, 745>>)),
       BFieldElement_new(Dec(<<16, 200, 832, 071, 427, 728, 225>>)),
       BFieldElement_new(Dec(<<8, 640, 629, 006, 986, 782, 903>>)),
       BFieldElement_new(Dec(<<11, 570, 592, 580, 608, 458, 034>>)),
       BFieldElement_new(Dec(<<2, 895, 124, 598, 773, 988, 749>>)),
       BFieldElement_new(Dec(<<3, 420, 957, 867, 360, 511, 946>>)),
       BFieldElement_new(Dec(<<5, 796, 711, 531, 533, 733, 319>>)),
       BFieldElement_new(Dec(<<5, 282, 341, 612, 640, 982, 074>>)),
       BFieldElement_new(Dec(<<7, 026, 199, 320, 889, 950, 703>>)) >>

mds_test_vector_y ==
    << BFieldElement_new(Dec(<<4, 104, 170, 903, 924, 047, 333>>)),
       BFieldElement_new(Dec(<<6, 387, 491, 404, 022, 818, 542>>)),
       BFieldElement_new(Dec(<<14, 981, 184, 993, 811, 752, 484>>)),
       BFieldElement_new(Dec(<<16, 496, 996, 924, 371, 698, 202>>)),
       BFieldElement_new(Dec(<<5, 837, 420, 782, 411, 553, 495>>)),
       BFieldElement_new(Dec(<<4, 264, 374, 326, 976, 985, 633>>)),
       BFieldElement_new(Dec(<<5, 211, 883, 823, 040, 202, 320>>)),
       BFieldElement_new(Dec(<<11, 836, 807, 491, 772, 316, 903>>)),
       BFieldElement_new(Dec(<<8, 162, 670, 480, 249, 154, 941>>)),
       BFieldElement_new(Dec(<<5, 581, 482, 934, 627, 657, 894>>)),
       BFieldElement_new(Dec(<<9, 403, 344, 895, 570, 333, 937>>)),
       BFieldElement_new(Dec(<<8, 567, 874, 241, 156, 119, 862>>)),
       BFieldElement_new(Dec(<<15, 302, 967, 789, 437, 559, 413>>)),
       BFieldElement_new(Dec(<<13, 072, 768, 661, 755, 417, 248>>)),
       BFieldElement_new(Dec(<<18, 135, 835, 343, 258, 257, 325>>)),
       BFieldElement_new(Dec(<<9, 011, 523, 754, 984, 921, 044>>)) >>

MdsInputs == {ZeroState, mds_test_vector_x} \cup {UnitState(k) : k \in 1 .. MaxUnitWords}

\* Both linear layers on the same state.
Mds ==
    /\ pc = "start"
    /\ \E state \in MdsInputs :
          op' = [name |-> "mds", state |-> state, noswap |-> mds_noswap(state),
                 split |-> mds_split(state)]
    /\ pc' = "called"
    /\ UNCHANGED <<profile, nodes, proof, call, tamper, verdict, given, sponge, storage>>

Tip5Next ==
    \/ HashPair
    \/ Lookup
    \/ NewState
    \/ SpongeInit
    \/ Absorb
    \/ Squeeze
    \/ Mds

Tip5Spec == Init /\ [][Tip5Next]_vars

----------------------------------------------------------------------------
(* Tip5: the permutation, statement by statement, as hash_10, absorb and   *)
(* squeeze call it.  hash_10 is called as hash10_test_vectors calls it: on *)
(* ten zeros, then on the preimage with the last digest copied into it.    *)
(* `op` holds the caller, the round index, the position in the round, the  *)
(* statements run so far (`trace`) and the state before the last of them.  *)

\* The words 1, .., RATE: a block to absorb.
CountingBlock == SubSeq([i \in 1 .. RATE |-> BFieldElement_new(Small(i, 8))], 1, RATE)

\* Tip5State::new on machine words.
Tip5State_words(domain) ==
    LET zero == BFieldElement_zero
        one == BFieldElement_one
    IN  SubSeq([i \in 1 .. STATE_SIZE |->
                   IF domain = "FixedLength" /\ i > RATE THEN one ELSE zero], 1, STATE_SIZE)

\* The locals of a call of permutation that has run no round yet.
Entered(caller, state, test) ==
    [name |-> "permutation", caller |-> caller, round_index |-> 0, at |-> 1,
     trace |-> <<>>, before |-> state, test |-> test]

\* hash_10 up to its call of permutation.
hash_10_begin(input) == input \o SubSeq(Tip5State_words("FixedLength"), RATE + 1, STATE_SIZE)

\* The first call of hash_10 in hash10_test_vectors.
Hash10Begin ==
    /\ pc = "start"
    /\ LET preimage == SubSeq(ZeroState, 1, RATE) IN
       /\ sponge' = hash_10_begin(preimage)
       /\ op' = Entered("hash_10", sponge', [i |-> 0, preimage |-> preimage])
    /\ pc' = "permuting"
    /\ UNCHANGED <<profile, nodes, proof, call, tamper, verdict, given, storage>>

\* The next call of hash_10 in hash10_test_vectors: the digest is copied
\* into preimage[i..DIGEST_LENGTH + i].
Hash10Next ==
    /\ pc = "returned" /\ op.caller = "hash_10" /\ op.test.i < 6
    /\ LET i == op.test.i
           digest == SubSeq(sponge, 1, DIGEST_LENGTH)
           preimage == SubSeq([k \in 1 .. RATE |->
                                  IF i < k /\ k <= DIGEST_LENGTH + i THEN digest[k - i]
                                  ELSE op.test.preimage[k]], 1, RATE)
       IN  /\ sponge' = hash_10_begin(preimage)
           /\ op' = Entered("hash_10", sponge', [i |-> i + 1, preimage |-> preimage])
    /\ pc' = "permuting"
    /\ UNCHANGED <<profile, nodes, proof, call, tamper, verdict, given, storage>>

\* absorb up to its call of permutation, on a sponge that init made.
AbsorbBegin ==
    /\ pc = "start"
    /\ LET state == Tip5State_words("VariableLength")
           input == CountingBlock
       IN  sponge' = SubSeq([i \in 1 .. STATE_SIZE |->
                                IF i <= RATE THEN BFieldElement_add(state[i], input[i])
                                ELSE state[i]], 1, STATE_SIZE)
    /\ op' = Entered("absorb", sponge', [i |-> 0, preimage |-> <<>>])
    /\ pc' = "permuting"
    /\ UNCHANGED <<profile, nodes, proof, call, tamper, verdict, given, storage>>

\* squeeze up to its call of permutation.
SqueezeBegin ==
    /\ pc = "start"
    /\ sponge' = mds_test_vector_x
    /\ op' = Entered("squeeze", sponge', [i |-> 0, preimage |-> SubSeq(sponge', 1, RATE)])
    /\ pc' = "permuting"
    /\ UNCHANGED <<profile, nodes, proof, call, tamper, verdict, given, storage>>

\* The locals after one more statement of round.
Stepped(o, statement, state) ==
    [o EXCEPT !.trace = Append(@, <<o.round_index, statement>>),
              !.before = state,
              !.at = IF o.at = Len(round_steps) THEN 1 ELSE o.at + 1,
              !.round_index = IF o.at = Len(round_steps) THEN @ + 1 ELSE @]

InRound(statement) ==
    /\ pc = "permuting"
    /\ op.round_index < NUM_ROUNDS
    /\ round_steps[op.at] = statement

SboxLayer ==
    /\ InRound("sbox_layer")
    /\ sponge' = sbox_layer(sponge)
    /\ op' = Stepped(op, "sbox_layer", sponge)
    /\ UNCHANGED <<profile, pc, nodes, proof, call, tamper, verdict, given, storage>>

MdsNoswap ==
    /\ InRound("mds_noswap")
    /\ sponge' = mds_noswap(sponge)
    /\ op' = Stepped(op, "mds_noswap", sponge)
    /\ UNCHANGED <<profile, pc, nodes, proof, call, tamper, verdict, given, storage>>

AddRoundConstants ==
    /\ InRound("add_round_constants")
    /\ sponge' = add_round_constants(sponge, op.round_index)
    /\ op' = Stepped(op, "add_round_constants", sponge)
    /\ UNCHANGED <<profile, pc, nodes, proof, call, tamper, verdict, given, storage>>

\* The loop over 0..NUM_ROUNDS is over.
PermutationReturn ==
    /\ pc = "permuting"
    /\ op.round_index >= NUM_ROUNDS
    /\ pc' = "returned"
    /\ UNCHANGED <<profile, nodes, proof, call, tamper, verdict, given, op, sponge, storage>>

PermNext ==
    \/ Hash10Begin
    \/ Hash10Next
    \/ AbsorbBegin
    \/ SqueezeBegin
    \/ SboxLayer
    \/ MdsNoswap
    \/ AddRoundConstants
    \/ PermutationReturn

PermSpec == Init /\ [][PermNext]_vars

----------------------------------------------------------------------------
(* The storage vector: a vector is prepared, then one reading and one      *)
(* writing call run on it, step by step, in any interleaving.              *)

NEW_VALUE == 50

\* prepare_concurrency_test_vec, with len elements in place of 400
prepare_concurrency_test_vec(len) == [i \in 1 .. len |-> i - 1]

\* Batches of set_many: every index in order, and in reverse order.
KeyVals(len) ==
    {[k \in 1 .. len |-> <<k - 1, NEW_VALUE>>], [k \in 1 .. len |-> <<len - k, NEW_VALUE>>]}

PrepareVec ==
    /\ pc = "start"
    /\ \E len \in 1 .. MaxVecLen : inner' = prepare_concurrency_test_vec(len)
    /\ pc' = "storage"
    /\ UNCHANGED <<profile, nodes, proof, call, tamper, verdict, given, op, sponge, borrow,
                   reader, writer>>

GetMany ==
    /\ pc = "storage" /\ reader.status = "idle"
    /\ reader' = Spawned("get_many", get_many([k \in 1 .. Len(inner) |-> k - 1]), <<>>)
    /\ UNCHANGED <<profile, pc, nodes, proof, call, tamper, verdict, given, op, sponge, inner,
                   borrow, writer>>

GetAll ==
    /\ pc = "storage" /\ reader.status = "idle"
    /\ reader' = Spawned("get_all", get_all(Len(inner)), <<>>)
    /\ UNCHANGED <<profile, pc, nodes, proof, call, tamper, verdict, given, op, sponge, inner,
                   borrow, writer>>

SetMany ==
    /\ pc = "storage" /\ writer.status = "idle"
    /\ \E key_vals \in KeyVals(Len(inner)) :
          writer' = Spawned("set_many", set_many(key_vals), key_vals)
    /\ UNCHANGED <<profile, pc, nodes, proof, call, tamper, verdict, given, op, sponge, inner,
                   borrow, reader>>

SetAll ==
    /\ pc = "storage" /\ writer.status = "idle"
    /\ LET vals == [k \in 1 .. Len(inner) |-> NEW_VALUE]
       IN  writer' = Spawned("set_all", set_all(vals), [k \in 1 .. Len(vals) |-> <<k - 1, vals[k]>>])
    /\ UNCHANGED <<profile, pc, nodes, proof, call, tamper, verdict, given, op, sponge, inner,
                   borrow, reader>>

ReaderStep ==
    /\ reader.status = "running"
    /\ LET outcome == StepOutcome(reader, reader.program[reader.at])
       IN  /\ reader' = Advance(reader, outcome, writer)
           /\ borrow' = outcome.borrow
           /\ inner' = outcome.inner
    /\ writer' = [writer EXCEPT !.overlapped = @ \/ writer.status = "running"]
    /\ UNCHANGED <<profile, pc, nodes, proof, call, tamper, verdict, given, op, sponge>>

WriterStep ==
    /\ writer.status = "running"
    /\ LET outcome == StepOutcome(writer, writer.program[writer.at])
       IN  /\ writer' = Advance(writer, outcome, reader)
           /\ borrow' = outcome.borrow
           /\ inner' = outcome.inner
    /\ reader' = [reader EXCEPT !.overlapped = @ \/ reader.status = "running"]
    /\ UNCHANGED <<profile, pc, nodes, proof, call, tamper, verdict, given, op, sponge>>

VecNext ==
    \/ PrepareVec
    \/ GetMany
    \/ GetAll
    \/ SetMany
    \/ SetAll
    \/ ReaderStep
    \/ WriterStep

VecSpec == Init /\ [][VecNext]_vars

----------------------------------------------------------------------------
(* Properties. *)

Verified == pc = "verified"

HasRepeatedIndex(c) ==
    \E j, k \in DOMAIN c.leaf_indices : j # k /\ c.leaf_indices[j] = c.leaf_indices[k]

\* The size of the de-duplicated node-index set of a tree of 2^height
\* leaves for in-range leaf indices, computed on unbounded integers.
ExpectedStructureSize(height, leaf_indices) ==
    LET computable == UNION {PathToRoot(leaf_indices[k] + 2 ^ height) : k \in DOMAIN leaf_indices}
        needed == {Xor1(n) : n \in computable}
    IN  Cardinality(needed \ computable)

\* C1: the opening the prover makes for any list of valid leaf indices
\* (any order, repeats, every leaf) verifies against the tree's root and
\* height.
C1_RoundTrip == (Verified /\ tamper = "none") => verdict = "true"

\* C1 witness: every leaf of a tree of the largest height opened twice, and
\* accepted.
C1_Witness ==
    /\ Verified /\ tamper = "none" /\ verdict = "true"
    /\ call.tree_height = MaxHeight
    /\ call.leaf_indices = AllLeaves(2 ^ MaxHeight) \o AllLeaves(2 ^ MaxHeight)

\* C2 (as claimed): a call of verify_authentication_structure returns true
\* or false, whatever its arguments; it never panics.
C2_NeverPanics == Verified => verdict \in {"true", "false"}

\* C3 (as claimed): an opening with its root replaced by another digest is
\* rejected, for any list of leaf indices.
C3_AnyBadRootRejected == (Verified /\ tamper = "root") => verdict = "false"

\* C3 (amended): an opening of at least one leaf with its root replaced by
\* another digest is rejected.
C3_BadRootRejected ==
    (Verified /\ tamper = "root" /\ Len(call.leaf_indices) > 0) => verdict = "false"

\* C3 witness: an opening of several leaves, one of them twice, rejected
\* for its root.
C3_Witness ==
    /\ Verified /\ tamper = "root" /\ verdict = "false"
    /\ call.tree_height = MaxHeight
    /\ Len(call.leaf_indices) = MaxIndices
    /\ HasRepeatedIndex(call)

\* C4: an opening with one leaf digest or one digest of the authentication
\* structure replaced by another digest is rejected.
C4_BadDigestRejected ==
    (Verified /\ tamper \in {"leaf", "structure"}) => verdict = "false"

\* C4 witness: a digest of a structure of two or more digests replaced, and
\* the opening rejected.
C4_Witness ==
    /\ Verified /\ tamper = "structure" /\ verdict = "false"
    /\ Len(call.authentication_structure) >= 2
    /\ Len(call.leaf_indices) >= 2

\* C5 (as claimed): an opening verified with the height one too large or one
\* too small is rejected.
C5_AnyWrongHeightRejected ==
    (Verified /\ tamper \in {"height_plus", "height_minus"}) => verdict = "false"

\* C5 (amended): an opening of at least one leaf verified with the height
\* one too large or one too small is rejected.
C5_WrongHeightRejected ==
    (Verified /\ tamper \in {"height_plus", "height_minus"} /\ Len(call.leaf_indices) > 0)
        => verdict = "false"

\* C5 witness: an opening of two leaves of a tree of the largest height,
\* rejected with the height one too small.
C5_Witness ==
    /\ Verified /\ tamper = "height_minus" /\ verdict = "false"
    /\ proof.tree_height = MaxHeight
    /\ Len(call.leaf_indices) >= 2
    /\ \A k \in DOMAIN call.leaf_indices : call.leaf_indices[k] < 2 ^ call.tree_height

\* C6 (as claimed): a call whose authentication structure is longer or
\* shorter than the expected node-index set of (tree_height, leaf_indices)
\* returns false.
C6_WrongLengthRejected ==
    (/\ Verified
     /\ \A k \in DOMAIN call.leaf_indices : call.leaf_indices[k] < 2 ^ call.tree_height
     /\ Len(call.authentication_structure)
           # ExpectedStructureSize(call.tree_height, call.leaf_indices))
        => verdict = "false"

\* C7 (as claimed): an opening that repeats a leaf index with the same
\* digest verifies, and a call that gives two different digests for one
\* leaf index returns false whatever its other arguments are.
C7_RepeatedIndices ==
    /\ (Verified /\ tamper = "none" /\ HasRepeatedIndex(call)) => verdict = "true"
    /\ (/\ Verified
        /\ \E j, k \in DOMAIN call.leaf_indices \cap DOMAIN call.leaf_digests :
              /\ call.leaf_indices[j] = call.leaf_indices[k]
              /\ call.leaf_digests[j] # call.leaf_digests[k])
          => verdict = "false"

\* C8 (as claimed): the authentication structure of no leaf is empty, and a
\* call with no indices, no digests and an empty structure returns true for
\* every root and every tree_height.
C8_EmptyOpening ==
    /\ pc = "built" => get_authentication_structure(nodes, <<>>) = Ok(<<>>)
    /\ (/\ Verified
        /\ Len(call.leaf_indices) = 0
        /\ Len(call.leaf_digests) = 0
        /\ Len(call.authentication_structure) = 0)
          => verdict = "true"

\* C9 (as claimed): a call with as many indices as digests, at least one,
\* and a leaf index of 2^tree_height or more returns false.
C9_IndexOutOfRangeRejected ==
    (/\ Verified
     /\ Len(call.leaf_indices) = Len(call.leaf_digests)
     /\ Len(call.leaf_indices) # 0
     /\ \E k \in DOMAIN call.leaf_indices : call.leaf_indices[k] >= 2 ^ call.tree_height)
        => verdict = "false"

\* C10 (as claimed): a call with more or fewer leaf indices than leaf
\* digests returns false.
C10_LengthMismatchRejected ==
    (Verified /\ Len(call.leaf_indices) # Len(call.leaf_digests)) => verdict = "false"

----------------------------------------------------------------------------
(* Properties of the tree's own operations (TreeSpec). *)

Called(name) == pc = "called" /\ op.name = name

TreeLeafCount == NodesLen(nodes) \div 2

\* C of the authentication structure: the nodes below the root that lie on
\* the path from a requested leaf to the root.
NodesOnPaths(leaves_count, leaf_indices) ==
    {n \in 2 .. 2 * leaves_count - 1 :
        \E k \in DOMAIN leaf_indices, d \in 0 .. WordBits - 1 :
           (leaves_count + leaf_indices[k]) \div (2 ^ d) = n}

SiblingOf(n) == IF n % 2 = 0 THEN n + 1 ELSE n - 1

\* N \ C: the siblings of the nodes on the paths that are not on a path.
SiblingsOffPaths(leaves_count, leaf_indices) ==
    {SiblingOf(n) : n \in NodesOnPaths(leaves_count, leaf_indices)}
        \ NodesOnPaths(leaves_count, leaf_indices)

\* The k-th element of a set of numbers in ascending order.
NthSmallest(S, k) == CHOOSE e \in S : Cardinality({x \in S : x < e}) = k - 1

\* The authentication path of one leaf: the sibling of its ancestor on every
\* level, the level below the root first.
AuthenticationPath(ns, leaf_index) ==
    LET leaves_count == NodesLen(ns) \div 2
        height == CHOOSE h \in 0 .. WordBits : 2 ^ h = leaves_count
    IN  [k \in 1 .. height |->
            ns[SiblingOf((leaves_count + leaf_index) \div (2 ^ (height - k)))]]

\* C11: get_authentication_structure on a list of valid leaf indices returns
\* the stored digests of exactly the nodes in N \ C, each once, in strictly
\* ascending order of the node index; for leaves 0 and 2 of 8 these are the
\* nodes 3, 9, 11, and for one leaf it is the authentication path of
\* get_height() digests.
C11_StructureIsSiblingsOffPaths ==
    Called("get_authentication_structure") =>
        LET expected == SiblingsOffPaths(TreeLeafCount, op.leaf_indices) IN
        /\ op.result.ok /\ op.node_indices.ok
        /\ Len(op.result.val) = Cardinality(expected)
        /\ Len(op.node_indices.val) = Cardinality(expected)
        /\ \A k \in 1 .. Cardinality(expected) :
              /\ op.node_indices.val[k] = NthSmallest(expected, k)
              /\ op.result.val[k] = nodes[NthSmallest(expected, k)]
        /\ (TreeLeafCount = 8 /\ Range(op.leaf_indices) = {0, 2})
              => /\ op.node_indices.val = <<3, 9, 11>>
                 /\ op.result.val = <<nodes[3], nodes[9], nodes[11]>>
        /\ Len(op.leaf_indices) = 1
              => /\ Len(op.result.val) = get_height(nodes).val
                 /\ op.result.val = AuthenticationPath(nodes, op.leaf_indices[1])

\* C11 witness: leaves 0 and 2 of a tree of 8 different leaves opened, the
\* digests of the nodes 3, 9, 11 returned.
C11_Witness ==
    /\ Called("get_authentication_structure")
    /\ given = Leaves(8, "distinct")
    /\ op.leaf_indices = <<0, 2>>
    /\ op.result = Ok(<<nodes[3], nodes[9], nodes[11]>>)

RECURSIVE DerivableFrom(_, _)
\* The nodes known from `known` by the rule: both children known, parent
\* known.
DerivableFrom(known, leaves_count) ==
    LET parents == {n \in 1 .. leaves_count - 1 : 2 * n \in known /\ 2 * n + 1 \in known} IN
    IF parents \subseteq known THEN known
    ELSE DerivableFrom(known \cup parents, leaves_count)

OpenedLeafNodes(leaves_count, leaf_indices) ==
    {leaves_count + leaf_indices[k] : k \in DOMAIN leaf_indices}

\* Of the structure's nodes none can be left out and none is derivable.
NoNodeToSpare(opened, structure, leaves_count) ==
    \A n \in structure :
       /\ 1 \notin DerivableFrom(opened \cup (structure \ {n}), leaves_count)
       /\ n \notin DerivableFrom(opened \cup (structure \ {n}), leaves_count)

\* C12 (as claimed): from the opened leaf nodes and the nodes of the
\* structure the root is derivable, for any list of leaf indices; without
\* any one node of the structure it is not, and no node of the structure is
\* derivable from the others.
C12_AnyStructureMinimal ==
    Called("get_authentication_structure") =>
        LET opened == OpenedLeafNodes(TreeLeafCount, op.leaf_indices)
            structure == Range(op.node_indices.val)
        IN  /\ 1 \in DerivableFrom(opened \cup structure, TreeLeafCount)
            /\ NoNodeToSpare(opened, structure, TreeLeafCount)

\* C12 (amended): the same for a list of at least one leaf index; for the
\* empty list the structure is empty and nothing is derivable.
C12_StructureMinimal ==
    Called("get_authentication_structure") =>
        LET opened == OpenedLeafNodes(TreeLeafCount, op.leaf_indices)
            structure == Range(op.node_indices.val)
        IN  /\ Len(op.leaf_indices) > 0
                  => 1 \in DerivableFrom(opened \cup structure, TreeLeafCount)
            /\ Len(op.leaf_indices) = 0 => structure = {}
            /\ NoNodeToSpare(opened, structure, TreeLeafCount)

\* C12 witness: MaxIndices leaves of a tree of the largest opened height,
\* with a structure of three nodes or more from which the root is derivable.
C12_Witness ==
    /\ Called("get_authentication_structure")
    /\ TreeLeafCount = 2 ^ MaxOpenHeight
    /\ Len(op.leaf_indices) = MaxIndices
    /\ Cardinality(Range(op.node_indices.val)) >= 3
    /\ 1 \in DerivableFrom(OpenedLeafNodes(TreeLeafCount, op.leaf_indices)
                                \cup Range(op.node_indices.val), TreeLeafCount)

PowerOfTwo(n) == \E k \in 0 .. WordBits : n = 2 ^ k

\* C13: from_digests on L = 2^k leaf digests returns 2L nodes, the leaves
\* at L .. 2L-1 in the order given and every node i in 1 .. L-1 the hash of
\* the nodes 2i and 2i+1, with L-1 calls of hash_pair in all; below, at and
\* above the size where levels are hashed in parallel.
C13_TreeIsBuilt ==
    (pc \in {"built", "called", "panicked"} /\ PowerOfTwo(Len(given))) =>
        LET L == Len(given) IN
        /\ pc # "panicked"
        /\ DOMAIN nodes = 0 .. 2 * L - 1
        /\ \A j \in 0 .. L - 1 : nodes[L + j] = given[j + 1]
        /\ \A i \in 1 .. L - 1 : nodes[i] = hash_pair(nodes[2 * i], nodes[2 * i + 1])
        /\ op.name = "from_digests" => (op.ok /\ op.hash_pair_calls = L - 1)

\* C13 witness: a tree of 2^MaxBuildHeight different leaves, whose lowest
\* level of parents is hashed in parallel and whose root is hashed in the
\* sequential loop.
C13_Witness ==
    /\ pc = "built"
    /\ given = Leaves(2 ^ MaxBuildHeight, "distinct")
    /\ Len(given) \div 2 >= PARALLELLIZATION_THRESHOLD
    /\ nodes[1] = hash_pair(nodes[2], nodes[3])
    /\ op.hash_pair_calls = Len(given) - 1

\* C14: from_digests on a number of leaf digests that is not a power of
\* two, the empty input among them, panics and returns no tree.
C14_NotPowerOfTwoPanics ==
    /\ (op.name = "from_digests" /\ ~PowerOfTwo(Len(given)))
          => (~op.ok /\ pc = "panicked" /\ nodes = <<>>)
    /\ pc \in {"built", "called"} => PowerOfTwo(Len(given))

\* C14 witness: one leaf digest fewer than 2^MaxBuildHeight, and a panic.
C14_Witness ==
    /\ pc = "panicked"
    /\ op.name = "from_digests" /\ ~op.ok
    /\ Len(given) = 2 ^ MaxBuildHeight - 1

\* C15 (as claimed): get_leaf_by_index(i) returns the i-th digest given to
\* from_digests for i < L and panics for every i >= L; get_leaves_by_indices
\* does the same for each index, in the order of the indices.
C15_LeafAccess ==
    /\ Called("get_leaf_by_index") =>
          IF op.index < TreeLeafCount THEN op.result = Ok(given[op.index + 1])
          ELSE op.result = Panic
    /\ Called("get_leaves_by_indices") =>
          IF \A k \in DOMAIN op.leaf_indices : op.leaf_indices[k] < TreeLeafCount
          THEN op.result = Ok([k \in DOMAIN op.leaf_indices |-> given[op.leaf_indices[k] + 1]])
          ELSE op.result = Panic

----------------------------------------------------------------------------
(* Properties of Tip5 (Tip5Spec). *)

\* The number of permutations a state went through: the last capacity word
\* is never added to, so it is an element or a word of a permutation.
RECURSIVE PermutationsApplied(_)
PermutationsApplied(state) ==
    IF state[STATE_SIZE][1] = "perm" THEN 1 + PermutationsApplied(state[STATE_SIZE][3])
    ELSE 0

\* C16: hash_pair(a, b) is the first 5 words of one permutation of the
\* state with a in the words 0..4, b in the words 5..9 and one in the words
\* 10..15, which is hash_10 of a followed by b.
C16_HashPairIsOnePermutation ==
    op.name = "hash_pair" =>
        LET state == op.left \o op.right \o [i \in 1 .. 6 |-> BFIELD_ONE] IN
        /\ Len(op.result) = 5
        /\ \A i \in 1 .. 5 : op.result[i] = permutation(state)[i]
        /\ PermutationsApplied(state) = 0
        /\ op.result = hash_10(op.left \o op.right)

\* C16 witness: two digests of ten different words in all hashed; the
\* first word of the result is word 0 of the permutation of a state that
\* holds the left digest first, the right digest next and one in word 15.
C16_Witness ==
    /\ op.name = "hash_pair"
    /\ op.left = [i \in 1 .. 5 |-> Elt(i)]
    /\ op.right = [i \in 1 .. 5 |-> Elt(5 + i)]
    /\ op.result[1][1] = "perm" /\ op.result[1][2] = 0
    /\ op.result[1][3][1] = Elt(1)
    /\ op.result[1][3][6] = Elt(6)
    /\ op.result[1][3][16] = Elt(1)

\* C17: Tip5State::new(FixedLength) has zero in the words 0..9 and one in
\* the words 10..15; Tip5State::new(VariableLength) and init() have zero in
\* all 16 words.
C17_NewStates ==
    (op.name \in {"new", "init"}) =>
        /\ Len(sponge) = 16
        /\ \A i \in 0 .. 15 :
              sponge[i + 1] =
                  IF op.name = "new" /\ op.domain = "FixedLength" /\ i >= 10
                  THEN Elt(1) ELSE Elt(0)

\* C17 witness: the fixed-length state, with zero in word 9 and one in
\* word 10.
C17_Witness ==
    /\ op.name = "new" /\ op.domain = "FixedLength"
    /\ sponge[10] = Elt(0) /\ sponge[11] = Elt(1) /\ sponge[16] = Elt(1)

\* C18: absorb leaves the state that is one permutation of the state whose
\* rate word i is the sum of the old word i and block word i and whose 6
\* capacity words are the old ones; it returns nothing.
C18_AbsorbAddsThenPermutes ==
    op.name = "absorb" =>
        LET added == [i \in 1 .. 16 |->
                         IF i <= 10 THEN FieldAdd(op.before[i], op.input[i])
                         ELSE op.before[i]]
        IN  /\ sponge = permutation(added)
            /\ PermutationsApplied(sponge) = PermutationsApplied(op.before) + 1
            /\ DOMAIN op = {"name", "input", "before", "calls"}

\* C18 witness: a block of ten different words absorbed into a state that
\* was permuted before, so that a rate word is a sum that is not the block
\* word.
C18_Witness ==
    /\ op.name = "absorb"
    /\ PermutationsApplied(op.before) = 1
    /\ op.input = [i \in 1 .. 10 |-> Elt(i)]
    /\ sponge[1] = <<"perm", 0, [i \in 1 .. 16 |->
                                    IF i <= 10 THEN <<"add", op.before[i], Elt(i)>>
                                    ELSE op.before[i]]>>

\* C19: squeeze returns the 10 rate words of the state it began with and
\* leaves one permutation of that state; after any calls of absorb and
\* squeeze the state went through one permutation for each call.
C19_SqueezeReadsThenPermutes ==
    /\ op.name = "squeeze" =>
          /\ Len(op.result) = 10
          /\ \A i \in 1 .. 10 : op.result[i] = op.before[i]
          /\ sponge = permutation(op.before)
    /\ op.name \in {"absorb", "squeeze"} =>
          /\ PermutationsApplied(sponge) = op.calls
          /\ PermutationsApplied(op.before) = op.calls - 1

\* C19 witness: a squeeze right after an absorb of different words: the
\* output is the rate of the permutation the absorb ended with.
C19_Witness ==
    /\ op.name = "squeeze" /\ op.calls = 2
    /\ \A i \in 1 .. 10 : op.result[i][1] = "perm" /\ op.result[i][2] = i - 1
    /\ op.result[1][3][1] = Elt(1) /\ op.result[1][3][2] = Elt(2)
    /\ PermutationsApplied(sponge) = 2

\* C20: for every byte x the table entry LOOKUP_TABLE[x] is
\* ((x + 1)^3 mod 257) - 1, which is offset_fermat_cube_map(x) and a byte.
C20_LookupTableIsCubeMap ==
    op.name = "lookup" =>
        /\ op.looked_up = (((op.byte + 1) ^ 3) % 257) - 1
        /\ op.looked_up = op.mapped
        /\ op.looked_up \in 0 .. 255

\* C20 witness: the last byte, which the table maps to itself.
C20_Witness ==
    /\ op.name = "lookup" /\ op.byte = 255
    /\ op.looked_up = 255 /\ op.mapped = 255

\* C21: LOOKUP_TABLE is a bijection on the bytes: no other index has the
\* entry of the byte looked up, and the byte looked up is itself an entry.
C21_LookupTableIsBijection ==
    op.name = "lookup" =>
        /\ Len(LOOKUP_TABLE) = 256
        /\ \A y \in 0 .. 255 : LOOKUP_TABLE[y + 1] = op.looked_up => y = op.byte
        /\ \E y \in 0 .. 255 : LOOKUP_TABLE[y + 1] = op.byte

\* C21 witness: a byte that the table moves, and that another byte is
\* moved to.
C21_Witness ==
    /\ op.name = "lookup" /\ op.byte = 7
    /\ op.looked_up = 254
    /\ LOOKUP_TABLE[1 + 1] = op.byte

\* test_mds_test_vector: mds_noswap maps the input of the test to its output.
MdsTestVector ==
    (op.name = "mds" /\ op.state = mds_test_vector_x) => op.noswap = mds_test_vector_y

\* C22: on every state, mds_noswap and mds_split give the same 16 words.
C22_MdsPathsAgree ==
    op.name = "mds" => op.noswap = op.split

\* mds_split does not give the output test_mds_test_vector expects of
\* mds_noswap.
C22_Witness ==
    /\ op.name = "mds" /\ op.state = mds_test_vector_x
    /\ op.noswap = mds_test_vector_y
    /\ op.split # mds_test_vector_y

\* The elements after the whole batch has been applied to `contents`.
RECURSIVE AfterBatch(_, _)
AfterBatch(contents, key_vals) ==
    IF key_vals = <<>> THEN contents
    ELSE AfterBatch([contents EXCEPT ![key_vals[1][1] + 1] = key_vals[1][2]], Tail(key_vals))

ReachedRoot == Verified /\ op.run.stage = "root"

\* C24 as stated: after the tree_height rounds the frontier is the one index
\* 1, the root.
C24_FrontierEndsAtOne == ReachedRoot => op.run.parent_node_indices = <<1>>

\* C24: after the tree_height rounds the frontier is the one index 0, the
\* half of the root's index; the root's digest is in the partial tree at
\* index 1, and the call returns whether that digest equals the claimed
\* root.
C24_FrontierEndsAtZero ==
    ReachedRoot =>
        /\ Len(op.run.frontiers) = call.tree_height
        /\ op.run.parent_node_indices = <<0>>
        /\ 1 \in DOMAIN op.run.pmt
        /\ verdict = IF op.run.pmt[1] = call.root THEN "true" ELSE "false"

\* C24 witness: an opening of two leaves of a tree of height two was hashed
\* up in two rounds and its root matched.
C24_Witness ==
    /\ ReachedRoot /\ tamper = "none" /\ verdict = "true"
    /\ call.tree_height = 2
    /\ op.run.frontiers = << <<2, 3>>, <<1>> >>
    /\ op.run.parent_node_indices = <<0>>

\* The internal nodes above the opened leaves of a tree of the given height:
\* the nodes (leaf_index + num_leaves) / 2^j for j from 1 to the height.
ProperAncestors(tree_height, leaf_indices) ==
    {(leaf_indices[k] + 2 ^ tree_height) \div (2 ^ j) :
        k \in DOMAIN leaf_indices, j \in 1 .. tree_height}

\* C25: a call that comes to the comparison with root has evaluated
\* hash_pair once for every proper ancestor of the opened leaves, the root
\* included, never twice for one node and for no other node.
C25_EachAncestorHashedOnce ==
    ReachedRoot =>
        /\ \A j, k \in DOMAIN op.run.hashed : op.run.hashed[j] = op.run.hashed[k] => j = k
        /\ Range(op.run.hashed) = ProperAncestors(call.tree_height, call.leaf_indices)
        /\ Len(op.run.hashed) = Cardinality(ProperAncestors(call.tree_height, call.leaf_indices))

\* C25 witness: every leaf of a tree of height two is opened twice; each of
\* the three internal nodes is hashed once.
C25_Witness ==
    /\ ReachedRoot /\ call.tree_height = 2
    /\ Range(call.leaf_indices) = {0, 1, 2, 3} /\ Len(call.leaf_indices) = 8
    /\ op.run.hashed = <<2, 3, 1>>

RECURSIVE SubtreeDigest(_, _)
\* The value node i of the tree over `digests` has in the end.
SubtreeDigest(digests, i) ==
    IF i >= Len(digests) THEN digests[i - Len(digests) + 1]
    ELSE hash_pair(SubtreeDigest(digests, 2 * i), SubtreeDigest(digests, 2 * i + 1))

\* The calls of hash_pair a stepwise from_digests has made so far.
Hashes(o) == IF o.name = "from_digests_steps" /\ o.stage # "panicked" THEN o.hashes ELSE {}

\* The accesses of the tasks of the parallel level under way.
Events(o) == IF o.name = "from_digests_steps" /\ o.stage # "panicked" THEN o.events ELSE {}

\* The nodes of the level that node i is on.
LevelOf(i) == 2 ^ log_2_floor(i) .. 2 ^ (log_2_floor(i) + 1) - 1

\* One step of from_digests keeps the order of C26.
C26_Step ==
    /\ \A e \in Hashes(op') \ Hashes(op) :
          /\ e.left = SubtreeDigest(given, 2 * e.parent)
          /\ e.right = SubtreeDigest(given, 2 * e.parent + 1)
          /\ \A k \in LevelOf(2 * e.parent) : nodes[k] = SubtreeDigest(given, k)
    /\ \A e, f \in Events(op') :
          (e.task # f.task /\ e.array = f.array /\ e.slot = f.slot) =>
              (e.kind = "read" /\ f.kind = "read")

\* C26: in from_digests every call of hash_pair for a parent i reads the
\* final values of its children 2i and 2i+1, and is made when every node of
\* the children's level has its final value; and of two tasks of one
\* parallel level neither writes a slot the other one reads or writes.
C26_ChildrenBeforeParents == [][C26_Step]_vars

\* C26 witness: the tree over 2^MaxBuildHeight leaves is built, its lowest
\* level by two workers whose tasks interleaved, the levels above one node
\* after the other.
C26_Witness ==
    /\ pc = "built" /\ op.name = "from_digests_steps"
    /\ Len(given) = 2 ^ MaxBuildHeight
    /\ op.workers = MaxWorkers
    /\ op.count_acc >= PARALLELLIZATION_THRESHOLD
    /\ Cardinality(op.hashes) = Len(given) - 1
    /\ nodes[1] = SubtreeDigest(given, 1)

\* The digest that hash10_test_vectors expects of its last call of hash_10.
hash10_final_digest ==
    << BFieldElement_new(Dec(<<13, 893, 101, 008, 570, 085, 259>>)),
       BFieldElement_new(Dec(<<12, 868, 275, 854, 371, 526, 426>>)),
       BFieldElement_new(Dec(<<14, 048, 396, 406, 819, 570, 654>>)),
       BFieldElement_new(Dec(<<5, 452, 119, 458, 724, 574, 669>>)),
       BFieldElement_new(Dec(<<6, 240, 471, 940, 533, 869, 882>>)) >>

\* The last call of hash_10 in hash10_test_vectors has returned.
Hash10TestDone == pc = "returned" /\ op.name = "permutation" /\ op.caller = "hash_10" /\ op.test.i = 6

\* The test vector of the source: the model computes the digest the test
\* asserts.
Hash10TestVector == Hash10TestDone => SubSeq(sponge, 1, DIGEST_LENGTH) = hash10_final_digest

\* x * x * x * x * x * x * x, one factor after the other.
PowerBySteps(x, n) ==
    IF n = 7
    THEN BFieldElement_mul(BFieldElement_mul(BFieldElement_mul(BFieldElement_mul(
             BFieldElement_mul(BFieldElement_mul(x, x), x), x), x), x), x)
    ELSE x

\* What the k-th statement of a permutation has to be: round (k - 1) / 3,
\* and in it the S-boxes, the linear layer, the constants.
Scheduled(k) ==
    <<(k - 1) \div 3,
      IF (k - 1) % 3 = 0 THEN "sbox_layer"
      ELSE IF (k - 1) % 3 = 1 THEN "mds_noswap" ELSE "add_round_constants">>

\* The last statement run did to the state what its name says.
LastStatementDone ==
    LET statement == op.trace[Len(op.trace)]
        before == op.before
    IN  CASE statement[2] = "sbox_layer" ->
               /\ \A i \in 1 .. 4 : \A b \in 1 .. 8 :
                     sponge[i][b] = LOOKUP_TABLE[before[i][b] + 1]
               /\ \A i \in 5 .. STATE_SIZE : sponge[i] = PowerBySteps(before[i], 7)
          [] statement[2] = "mds_noswap" -> sponge = mds_noswap(before)
          [] statement[2] = "add_round_constants" ->
               LET constants == ROUND_CONSTANTS IN
               \A i \in 1 .. STATE_SIZE :
                  sponge[i] = BFieldElement_add(before[i], constants[16 * statement[1] + i])

\* C27: every call of the permutation, from hash_10, absorb or squeeze,
\* runs the rounds 0, 1, 2, 3, 4 in this order and no other; every round is
\* the S-box layer (the table on the bytes of words 0..3, the seventh power
\* of words 4..15), then the MDS layer, then the addition of
\* ROUND_CONSTANTS[16 * round + i] to word i; the call returns after the
\* fifteenth statement and not before.
C27_FiveRoundsInOrder ==
    (pc \in {"permuting", "returned"} /\ op.name = "permutation") =>
        /\ Len(op.trace) <= 15
        /\ \A k \in DOMAIN op.trace : op.trace[k] = Scheduled(k)
        /\ pc = "returned" => Len(op.trace) = 15
        /\ op.trace # <<>> => LastStatementDone

\* C27 witness: the last hash_10 of hash10_test_vectors has returned the
\* digest the test expects, after fifteen statements.
C27_Witness ==
    /\ Hash10TestDone
    /\ Len(op.trace) = 15
    /\ op.trace[15] = <<4, "add_round_constants">>
    /\ SubSeq(sponge, 1, DIGEST_LENGTH) = hash10_final_digest

\* The call names the root and the height of the tree that was built.
AboutTheTree ==
    /\ Verified
    /\ get_height(nodes).ok
    /\ call.root = get_root(nodes)
    /\ call.tree_height = get_height(nodes).val

\* C28: hash_pair being free of collisions, a call on the root and the
\* height of a tree that returns true for a list of leaf indices that is not
\* empty was given the tree's own leaves at these indices and the tree's own
\* authentication structure for them.
C28_AcceptedOpeningIsTheTrees ==
    (AboutTheTree /\ verdict = "true" /\ call.leaf_indices # <<>>) =>
        /\ Len(call.leaf_digests) = Len(call.leaf_indices)
        /\ \A k \in DOMAIN call.leaf_indices :
              /\ call.leaf_indices[k] < get_leaf_count(nodes).val
              /\ call.leaf_digests[k] = nodes[get_leaf_count(nodes).val + call.leaf_indices[k]]
        /\ get_authentication_structure(nodes, call.leaf_indices) =
              Ok(call.authentication_structure)

\* C28 witness: an opening a caller made up, of two leaves of a tree of
\* height two, is accepted.
C28_Witness ==
    /\ AboutTheTree /\ verdict = "true" /\ tamper = "forged"
    /\ call.tree_height = 2
    /\ Len(call.leaf_indices) = 2 /\ call.leaf_indices[1] # call.leaf_indices[2]
    /\ call.authentication_structure # <<>>

\* The call passed the checks made before the hashing loop: the lengths, the
\* range of the indices, the size of the structure and the digests of
\* repeated indices.
PassedChecks == Verified /\ op.run.stage \in {"loop", "root"}

StrictlyIncreasing(s) == \A j, k \in DOMAIN s : j < k => s[j] < s[k]

\* C29: a call that passed the checks before the hashing loop is not
\* rejected inside the loop: every frontier node is absent from the partial
\* tree and has both children in it, every frontier is strictly increasing,
\* and the call returns what the comparison with the claimed root gives.
C29_LoopNeverRejects ==
    PassedChecks =>
        /\ op.run.stage = "root"
        /\ op.run.why = "none"
        /\ \A r \in DOMAIN op.run.frontiers : StrictlyIncreasing(op.run.frontiers[r])
        /\ 1 \in DOMAIN op.run.pmt
        /\ verdict = IF op.run.pmt[1] = call.root THEN "true" ELSE "false"

\* C30: the authentication structure of a list of leaf indices is that of
\* the list of its distinct indices in increasing order, whatever the order
\* and the repetitions in the list; and the prover's opening is accepted
\* with its (index, digest) pairs put in another order or repeated.
C30_OnlyTheIndexSetCounts ==
    /\ pc \in {"opened", "verified"} =>
          Ok(proof.authentication_structure) =
              get_authentication_structure(nodes, SortedSeq(Range(proof.leaf_indices)))
    /\ (Verified /\ tamper = "reordered") => verdict = "true"

\* C30 witness: an opening of the leaves 2, 0, 2 of a tree of height two is
\* accepted as an opening of the leaves 0, 2.
C30_Witness ==
    /\ Verified /\ tamper = "reordered" /\ verdict = "true"
    /\ proof.tree_height = 2
    /\ proof.leaf_indices = <<2, 0, 2>>
    /\ call.leaf_indices = <<0, 2>>
    /\ call.authentication_structure = proof.authentication_structure
    /\ call.authentication_structure # <<>>

====
